---- MODULE Spec2Model ----
(***************************************************************************)
(* A model of the dynami DynamoDB client: the multi-table batch            *)
(* coordinator (batchOp and BatchPut / BatchDelete / BatchGet), the query  *)
(* result iterator and the stream record iterator.                         *)
(*                                                                         *)
(* Slices are 1-based here (Go's index i is i+1 in the model).  A primary  *)
(* key is a number; the key value 0 is the zero value, for which           *)
(* getPrimaryKey fails ("incomplete primary key").  Keys are only compared *)
(* for equality within a table, so a slice numbers its keys in order of    *)
(* first appearance.  A dbitem held by the coordinator is represented by   *)
(* the input index it was built from (its payload); its index key is the   *)
(* key of that input item.                                                 *)
(***************************************************************************)
EXTENDS Integers, Sequences, FiniteSets, TLC

\* ---------------------------------------------------------------- bounds
\* Most items one batch holds, over all of its tables.
MaxItems == 3
\* Batch size caps handed to collectItems.  The store's caps are 25 writes
\* and 100 reads per call; collectItems takes the cap as a parameter and the
\* model runs it with caps small enough for a slice to exceed them.
maxPutsPerOp == 2
maxDelsPerOp == 2
maxGetsPerOp == 2
\* Most result pages the store holds for one query, and most items of a page.
MaxPages == 3
MaxPageItems == 2
\* Largest limit handed to Query.Limit, and most Filter calls on one query.
MaxLimit == 2
MaxFilters == 2
\* Most shards and most records of the stream, most records of one
\* GetRecords reply, most shards of one DescribeStream reply, and most
\* transport calls that fail while one RecordIterator is used.
MaxShards == 2
MaxRecords == 3
RecordsPerCall == 2
ShardsPerPage == 1
MaxFailures == 1
MaxGoroutines == 2

Tables == {"TableA", "TableB"}
NIL == 0
Keys == 1..MaxItems
\* The item slices of at most n items, each item given by its primary key,
\* the resolvable keys numbered 1, 2, ... in order of first appearance.
ItemSlices(n) ==
  {s \in UNION {[1..m -> 0..MaxItems] : m \in 0..n} :
     \A i \in 1..Len(s) : s[i] > 1 => \E j \in 1..(i-1) : s[j] = s[i] - 1}

VARIABLES
  pc,          \* position of the caller: "build", "run", "call", "done"
  bKind,       \* "none", "put", "delete", "get": which batch structure
  bErr,        \* BatchPut.err / BatchDelete.err / BatchGet.err
  bTables,     \* BatchPut.tables / BatchDelete.tables / keys of BatchGet.items
  bItems,      \* the registered input slices, table -> sequence of keys
  unproc,      \* batchOp.unproc: table -> pending slots (index or NIL)
  unprocDom,   \* the tables that are keys of the map batchOp.unproc
  unprocIdxs,  \* batchOp.unprocIdxs: table -> key -> indices (<<>> is absent)
  itemIdxs,    \* batchOp.itemIdxs: table -> key -> indices
  unpCount,    \* batchOp.unpCount
  errs,        \* batchOp.errs: table -> index -> error ("" is absent)
  citems,      \* Run's local citems: the entries carried into the next call
               \* and, while a call is in flight, its RequestItems
  runResult,   \* what Run returned: "", "nil", "BatchError", "builderErr", "transportErr"
  sentNew,     \* history: table -> key -> number of entries collected from unproc
  returned,    \* history: <<table, key>> the store returned in a BatchGet response
  decoded      \* history: <<table, index>> whose destination fproc decoded

batchVars == <<pc, bKind, bErr, bTables, bItems, unproc, unprocDom, unprocIdxs,
               itemIdxs, unpCount, errs, citems, runResult, sentNew,
               returned, decoded>>

VARIABLES
  qpc,          \* position of the query's caller: "none", "build", "iter"
  qErr,         \* Query.err ("" is nil)
  qTable,       \* Query.table
  qIndex,       \* Query.index
  qHashExpr,    \* Query.hashExpr, as a sequence of tokens (<<>> is "")
  qRangeExpr,   \* Query.rangeExpr, as a sequence of tokens
  qNFilters,    \* Query.nfilters
  qFilterExpr,  \* Query.filterExpr, as a sequence of tokens
  qLimit,       \* Query.limit
  qScanForward, \* Query.scanForward
  qConsistent,  \* Query.consistentRead
  itOp,         \* ItemIterator.queryInput: "query", "scan", "" (nil)
  itIndex,      \* ItemIterator.index
  itItems,      \* ItemIterator.items, each item named <<page, position>>
  itLastKey,    \* ItemIterator.lastKey: the page it was returned with, 0 is nil
  itLimit,      \* ItemIterator.limit
  storePages,   \* the store's result pages: the number of items of each page
  lastHasNext,  \* what the latest HasNext returned: "none", "true", "false"
  callerErr,    \* the error the latest Run / HasNext / Next handed to the caller
  fetchFailed,  \* history: a page fetch of the latest operation failed
  requested,    \* history: a Query or Scan request was issued
  lateFetch,    \* history: a page was fetched after limit items had been yielded
  qInput,       \* the QueryInput / ScanInput Run built: its expressions
  yielded,      \* history: the items Next has delivered, in order
  qAttrNames,   \* Query.attributeNames, a set of <<placeholder, name>>
  qAttrValues,  \* Query.attributeValues, a set of <<placeholder, value>>
  qSupplied,    \* history: the names and values the calls whose text is in
                \* hashExpr, rangeExpr and filterExpr were given
  qCalled       \* history: the latest HashFilter, RangeFilter or Filter call

queryVars == <<qpc, qErr, qTable, qIndex, qHashExpr, qRangeExpr, qNFilters, qFilterExpr,
               qLimit, qScanForward, qConsistent, itOp, itIndex, itItems,
               itLastKey, itLimit, storePages, lastHasNext, callerErr,
               fetchFailed, requested, lateFetch, qInput, yielded,
               qAttrNames, qAttrValues, qSupplied, qCalled>>

\* The stream of a table (the store's side) and the RecordIterator reading it.
VARIABLES
  shStart,        \* per shard id: SequenceNumberRange.StartingSequenceNumber
  shEnd,          \* per shard id: EndingSequenceNumber, NIL while the shard is open
  shRecs,         \* per shard id: the sequence numbers of its records, in order
  seqCtr,         \* the next sequence number the store hands out
  streamStatus,   \* StreamDescription.StreamStatus
  spc,            \* where the caller / getNext is: "none", "idle", "describe",
                  \* "shard", "records", "refresh", "panic"
  sArn,           \* RecordIterator.arn
  sIndex,         \* RecordIterator.index
  sRecords,       \* RecordIterator.records (a record is its sequence number)
  sLastRecSeqNum, \* RecordIterator.lastRecSeqNum, NIL for nil
  sLastShardID,   \* RecordIterator.lastShardID, NIL for nil
  sProcessed,     \* RecordIterator.processedShardIDs
  sWait,          \* getNext's wait
  pShards,        \* getNext: the shards of the page still to process, sorted
  pLastEval,      \* getNext: desc.LastEvaluatedShardId, NIL for nil
  stId,           \* getRecords: st.id, a token <<shard, position>>
  shardIt,        \* getRecords: *shardIt
  sRet,           \* what the latest HasNext / WaitNext returned: "none", "true", "false"
  sCallerErr,     \* the error the latest GetStream / Next returned
  sYielded,       \* the records Next handed to the caller, in order
  sFailures,      \* how many transport calls of the stream client failed so far
                  \* for a passing reason (throttling, a lost connection)
  sDescribes,     \* DescribeStream calls of the latest HasNext / WaitNext: 0, 1,
                  \* or 2 for two and more
  stExpired,      \* the token st.id has expired
  itExpired,      \* the token *shardIt has expired
  streamGone,     \* the stream was deleted
  shardsGone,     \* the shards that were trimmed away
  shLimit         \* how many shards one DescribeStream reply lists at most

streamVars == <<shStart, shEnd, shRecs, seqCtr, streamStatus, spc, sArn, sIndex,
                sRecords, sLastRecSeqNum, sLastShardID, sProcessed, sWait, pShards,
                pLastEval, stId, shardIt, sRet, sCallerErr, sYielded, sFailures,
                sDescribes, stExpired, itExpired, streamGone, shardsGone, shLimit>>

\* One mutation of a table with a stream, the stream record it leaves and what
\* getRecords and Next make of the record.
VARIABLES
  rpc,        \* "idle", or where the record is: "write", "select", "next"
  rView,      \* StreamViewType of the table's stream
  rItems,     \* the table: key -> the item's attribute Value, NoItem if absent
  rRec,       \* the stream record of the latest mutation
  rDbitem,    \* record.dbitem, as getRecords set it
  rType,      \* record.recordType
  rFetched    \* the struct the caller hands to Next

imageVars == <<rpc, rView, rItems, rRec, rDbitem, rType, rFetched>>

\* A filter expression handed to the compiler, and what it makes of it.
VARIABLES
  epc,        \* "idle", "input" (the caller holds the expression), "done"
  eTerms,     \* the terms the expression was written from
  eConns,     \* the words that join them
  eExpr,      \* expr
  eValues,    \* values
  eOut        \* what parseExpression returned

exprVars == <<epc, eTerms, eConns, eExpr, eValues, eOut>>

\* An item handed to getKey, the schema of its type and the key it gets.
VARIABLES
  kpc,        \* "idle", "input" (the caller holds the item), "done"
  kItem,      \* the item: a struct or a map, attribute -> what it holds
  kSchema,    \* sc.GetSchema(item)
  kOut        \* what getKey returned

keyVars == <<kpc, kItem, kSchema, kOut>>

\* The schema register of package schema and the goroutines calling GetSchema
\* with struct items.
VARIABLES
  schemas,    \* register.schemas: per struct type the *Table stored
  cpc,        \* per goroutine: "idle", "build" (the lookup missed), "return"
  cType,      \* per goroutine: v.Type() of the item of its call
  cS,         \* per goroutine: s
  cAllocs,    \* how many Tables GetSchema has allocated so far
  cWrites,    \* history: per struct type, how often its entry was assigned
  cGot        \* history: per struct type, the schemas GetSchema returned

cacheVars == <<schemas, cpc, cType, cS, cAllocs, cWrites, cGot>>

pureVars == <<imageVars, exprVars, keyVars, cacheVars>>

vars == <<batchVars, queryVars, streamVars, pureVars>>

\* ------------------------------------------------------------- helpers
Max(a, b) == IF a > b THEN a ELSE b

\* Go's integer division truncates toward zero.
GoDiv(a, b) == IF a >= 0 THEN a \div b ELSE -((-a) \div b)

RECURSIVE SumLen(_, _)
SumLen(f, S) ==
  IF S = {} THEN 0
  ELSE LET t == CHOOSE x \in S : TRUE IN Len(f[t]) + SumLen(f, S \ {t})

Perms(S) ==
  {p \in [1..Cardinality(S) -> S] : \A i, j \in 1..Cardinality(S) : i # j => p[i] # p[j]}

\* All subsequences of s (order kept).
RECURSIVE SubSeqs(_)
SubSeqs(s) ==
  IF s = <<>> THEN {<<>>}
  ELSE LET R == SubSeqs(Tail(s)) IN R \cup {<<Head(s)>> \o r : r \in R}

EmptySlots == [t \in Tables |-> <<>>]
EmptyIdxs == [t \in Tables |-> [k \in Keys |-> <<>>]]
EmptyErrs == [t \in Tables |-> [i \in 1..MaxItems |-> ""]]

\* ------------------------------------------------------------- batchOp
\* The index (ikey) of an entry of table t: the key of the item it was built from.
getIndexKey(t, e) == bItems[t][e]

\* isEmpty reporting "empty" as soon as it meets one empty table.
isEmpty_anyEmpty(q, dom) ==
  LET E == {t \in dom : Len(q[t]) = 0}
  IN IF E # {} \/ dom = {}
       THEN {[dom |-> dom \ E, empty |-> TRUE]}
       ELSE {[dom |-> dom, empty |-> FALSE]}

\* isEmpty: ranging over the map in an order the runtime picks, it deletes
\* the empty tables met before the first non-empty one.
isEmpty(q, dom) ==
  LET E == {t \in dom : Len(q[t]) = 0}
  IN IF E = dom
       THEN {[dom |-> {}, empty |-> TRUE]}
       ELSE {[dom |-> dom \ D, empty |-> FALSE] : D \in SUBSET E}

\* addItems without the "Process duplicates" loop: every resolved item stays.
unpItemsOf_keepDups(items) ==
  [i \in 1..Len(items) |-> IF items[i] # 0 THEN i ELSE NIL]

\* addItems keeping the first occurrence of a duplicated key, not the last.
unpItemsOf_firstWins(items) ==
  [i \in 1..Len(items) |->
     IF items[i] # 0 /\ \A j \in 1..(i-1) : items[j] # items[i]
       THEN i ELSE NIL]

\* addItems on a slice of keys: the slots it leaves in unproc.
unpItemsOf(items) ==
  [i \in 1..Len(items) |->
     IF items[i] # 0 /\ \A j \in (i+1)..Len(items) : items[j] # items[i]
       THEN i ELSE NIL]

idxsOf(items, k) ==
  LET S == {i \in 1..Len(items) : items[i] = k}
      RECURSIVE Asc(_, _)
      Asc(i, acc) == IF i > Len(items) THEN acc
                     ELSE Asc(i + 1, IF i \in S THEN Append(acc, i) ELSE acc)
  IN Asc(1, <<>>)

\* F applied to the value of v, with v evaluated once.
With(v, F(_)) == CHOOSE r \in {F(x) : x \in {v}} : TRUE

\* The inner loop of collectItems over the slots of one table, from slot i.
RECURSIVE collectInner(_, _, _, _, _, _)
collectInner(st, t, i, unprocs, batchSize, itemsPerTable) ==
  IF i > Len(unprocs)
    THEN [st EXCEPT !.q[t] = <<>>]
    ELSE
      LET item == unprocs[i]
          rest == SubSeq(unprocs, i + 1, Len(unprocs))
          after(st1) ==
            IF st1.n = batchSize \/ st1.cnt = 0
              THEN [st1 EXCEPT !.q[t] = rest, !.brk = TRUE]
              ELSE IF i >= itemsPerTable
                     THEN [st1 EXCEPT !.q[t] = rest]
                     ELSE collectInner(st1, t, i + 1, unprocs, batchSize, itemsPerTable)
      IN With([st EXCEPT !.cnt = @ - 1,
                         !.c[t] = IF item # NIL THEN Append(@, item) ELSE @,
                         !.n = IF item # NIL THEN @ + 1 ELSE @],
              after)

\* One pass of "for table, unprocs := range b.unproc" in the given order.
RECURSIVE collectPass(_, _, _, _)
collectPass(st, order, batchSize, itemsPerTable) ==
  IF order = <<>> \/ st.brk THEN st
  ELSE LET rest(st1) == collectPass(st1, Tail(order), batchSize, itemsPerTable)
       IN With(collectInner(st, Head(order), 1, st.q[Head(order)],
                            batchSize, itemsPerTable),
               rest)

\* The "Collect:" loop; every pass ranges over the map in some order.
RECURSIVE collectLoop(_, _, _, _)
collectLoop(st, dom, batchSize, itemsPerTable) ==
  IF st.brk THEN {[c |-> st.c, q |-> st.q, cnt |-> st.cnt]}
  ELSE UNION {collectLoop(st1, dom, batchSize, itemsPerTable) :
                st1 \in {collectPass(st, p, batchSize, itemsPerTable) : p \in Perms(dom)}}

\* A collectItems that leaves unpCount as it found it.
collectItems_keepCount(batchSize, unp, q, dom, cnt) ==
  IF cnt = 0 THEN {[c |-> unp, q |-> q, cnt |-> cnt]}
  ELSE LET bs == batchSize - SumLen(unp, Tables)
           itemsPerTable == Max(GoDiv(bs, Cardinality(dom)), 1)
       IN {[r EXCEPT !.cnt = cnt] :
             r \in collectLoop([c |-> unp, q |-> q, cnt |-> cnt, n |-> 0, brk |-> FALSE],
                               dom, bs, itemsPerTable)}

\* collectItems(batchSize, unproc): the possible results, one per map order.
collectItems(batchSize, unp, q, dom, cnt) ==
  IF cnt = 0 THEN {[c |-> unp, q |-> q, cnt |-> cnt]}
  ELSE LET bs == batchSize - SumLen(unp, Tables)
           itemsPerTable == Max(GoDiv(bs, Cardinality(dom)), 1)
       IN collectLoop([c |-> unp, q |-> q, cnt |-> cnt, n |-> 0, brk |-> FALSE],
                      dom, bs, itemsPerTable)

\* The index keys of the entries of a table -> entries map.
ikeysOf(m) == UNION {{<<t, getIndexKey(t, m[t][i])>> : i \in 1..Len(m[t])} : t \in Tables}

\* processItems: the index keys it removes from unprocIdxs.
processedKeys(collected, unprocessed) == ikeysOf(collected) \ ikeysOf(unprocessed)

\* A processItems that leaves the processed keys in unprocIdxs.
processItems_keep(uidx, collected, unprocessed) == uidx

processItems(uidx, collected, unprocessed) ==
  LET P == processedKeys(collected, unprocessed)
  IN [t \in Tables |-> [k \in Keys |-> IF <<t, k>> \in P THEN <<>> ELSE uidx[t][k]]]

\* flushUnproc marking only the first index of each pending key.
flushUnproc_firstIdx(e, uidx, err) ==
  [t \in Tables |-> [i \in 1..MaxItems |->
     IF \E k \in Keys : uidx[t][k] # <<>> /\ uidx[t][k][1] = i THEN err ELSE e[t][i]]]

\* flushUnproc(err): every index still in unprocIdxs gets err.
flushUnproc(e, uidx, err) ==
  [t \in Tables |-> [i \in 1..MaxItems |->
     IF \E k \in Keys : \E j \in 1..Len(uidx[t][k]) : uidx[t][k][j] = i
       THEN err ELSE e[t][i]]]

\* errors(): nil when no error was recorded, a BatchError otherwise.
errors(e) ==
  IF \A t \in Tables : \A i \in 1..MaxItems : e[t][i] = "" THEN "nil" ELSE "BatchError"

batchSizeOf(kind) ==
  IF kind = "put" THEN maxPutsPerOp
  ELSE IF kind = "delete" THEN maxDelsPerOp ELSE maxGetsPerOp

\* No request built: a nil *string is the empty sequence.
NoInput == [op |-> "", KeyConditionExpression |-> <<>>, FilterExpression |-> <<>>]

\* No call has put text into the expressions of the query.
NoBinds == [hash |-> {}, range |-> {}, filter |-> {}]

\* No filter call has been made.
NoCall == [call |-> "", expr |-> "", nvalues |-> 0]

\* No query has been built.
QueryIdle ==
  /\ qpc = "none" /\ qErr = "" /\ qTable = "" /\ qIndex = ""
  /\ qHashExpr = <<>> /\ qRangeExpr = <<>> /\ qNFilters = 0 /\ qFilterExpr = <<>>
  /\ qLimit = 0 /\ qScanForward = FALSE /\ qConsistent = FALSE
  /\ itOp = "" /\ itIndex = 0 /\ itItems = <<>> /\ itLastKey = 0 /\ itLimit = 0
  /\ storePages = <<>> /\ lastHasNext = "none" /\ callerErr = ""
  /\ fetchFailed = FALSE /\ requested = FALSE /\ lateFetch = FALSE
  /\ qInput = NoInput
  /\ yielded = <<>>
  /\ qAttrNames = {} /\ qAttrValues = {} /\ qSupplied = NoBinds
  /\ qCalled = NoCall

\* ------------------------------------------------------------- actions
\* No shard iterator token (a nil *string).
NoIterator == <<>>

\* The first sequence number of the stream.
SeqBase == 8

\* A new stream with one open shard, and no RecordIterator yet; the service
\* lists up to limit shards in a reply.
StreamStart(limit) ==
  /\ shStart = <<SeqBase>> /\ shEnd = <<NIL>> /\ shRecs = << <<>> >>
  /\ seqCtr = SeqBase + 1
  /\ streamStatus = "ENABLED"
  /\ spc = "none" /\ sArn = "" /\ sIndex = 0 /\ sRecords = <<>>
  /\ sLastRecSeqNum = NIL /\ sLastShardID = NIL /\ sProcessed = {}
  /\ sWait = FALSE /\ pShards = <<>> /\ pLastEval = NIL
  /\ stId = NoIterator /\ shardIt = NoIterator
  /\ sRet = "none" /\ sCallerErr = "" /\ sYielded = <<>> /\ sFailures = 0
  /\ sDescribes = 0 /\ stExpired = FALSE /\ itExpired = FALSE
  /\ streamGone = FALSE /\ shardsGone = {}
  /\ shLimit = limit

StreamIdle == StreamStart(ShardsPerPage)

\* A coordinator not built yet.
BatchIdle ==
  /\ pc = "build"
  /\ bKind = "none"
  /\ bErr = ""
  /\ bTables = {}
  /\ bItems = EmptySlots
  /\ unproc = EmptySlots
  /\ unprocDom = {}
  /\ unprocIdxs = EmptyIdxs
  /\ itemIdxs = EmptyIdxs
  /\ unpCount = 0
  /\ errs = EmptyErrs
  /\ citems = EmptySlots
  /\ runResult = ""
  /\ sentNew = [t \in Tables |-> [k \in Keys |-> 0]]
  /\ returned = {}
  /\ decoded = {}

\* The attributes of the items of the streamed table (tItem's Key and Value).
ImgKeys == {"key1", "key2"}
ImgValues == {"value1", "value2"}
NoItem == ""
\* A dbitem is the set of its <<attribute name, value>> pairs; a nil map has
\* none.
NoImage == {}
NoRecord == [EventName |-> "", Keys |-> NoImage, OldImage |-> NoImage,
             NewImage |-> NoImage]
ViewTypes == {"KEYS_ONLY", "NEW_IMAGE", "OLD_IMAGE", "NEW_AND_OLD_IMAGES"}

\* No mutation under way on a table whose stream has view type view.
ImageIdle(pos, view) ==
  /\ rpc = pos /\ rView = view
  /\ rItems = [k \in ImgKeys |-> NoItem]
  /\ rRec = NoRecord /\ rDbitem = NoImage /\ rType = "UNKNOWN"
  /\ rFetched = [Key |-> "", Value |-> ""]

NoOutput == [err |-> "", overread |-> FALSE, expr |-> <<>>, attrNames |-> <<>>,
             attrValues |-> <<>>]
\* No expression handed to the compiler.
ExprIdle ==
  /\ epc = "idle" /\ eTerms = <<>> /\ eConns = <<>> /\ eExpr = <<>> /\ eValues = <<>>
  /\ eOut = NoOutput

\* A dbkey: value maps the attributes of the key to their values; err is
\* the error, "panic" when the call did not return.
NoKey == [err |-> "", value |-> {}, indexName |-> "", indexType |-> ""]
NoSchema == [Key |-> <<>>, LocalSecondaryIndexes |-> <<>>, GlobalSecondaryIndexes |-> <<>>]
\* No item handed to getKey.
KeyIdle ==
  /\ kpc = "idle" /\ kItem = [kind |-> "", val |-> <<>>] /\ kSchema = NoSchema
  /\ kOut = NoKey

\* The register as the package starts with it, and no call of GetSchema yet.
Goroutines == 1..MaxGoroutines
Types == {"tBook", "tUser"}
\* No *Table: a type without an entry, a nil s.
NoTable == [ptr |-> 0, table |-> NoSchema]
CacheIdle ==
  /\ schemas = [t \in Types |-> NoTable]
  /\ cpc = [g \in Goroutines |-> "idle"]
  /\ cType = [g \in Goroutines |-> ""]
  /\ cS = [g \in Goroutines |-> NoTable]
  /\ cAllocs = 0
  /\ cWrites = [t \in Types |-> 0]
  /\ cGot = [t \in Types |-> {}]

Init ==
  /\ BatchIdle
  /\ QueryIdle
  /\ StreamIdle
  /\ ImageIdle("idle", "NEW_AND_OLD_IMAGES")
  /\ ExprIdle
  /\ KeyIdle /\ CacheIdle

\* batchOp.addItems(tableName, items) as a state change.
addItems(t, items) ==
  IF Len(items) = 0
    THEN UNCHANGED <<bItems, unproc, unprocDom, unprocIdxs, itemIdxs, unpCount, errs>>
    ELSE
      /\ unpCount' = unpCount + Len(items)
      /\ bItems' = [bItems EXCEPT ![t] = items]
      /\ errs' = [errs EXCEPT ![t] = [i \in 1..MaxItems |->
                     IF i <= Len(items) /\ items[i] = 0 THEN "ErrKey" ELSE @[i]]]
      /\ itemIdxs' = [itemIdxs EXCEPT ![t] = [k \in Keys |-> idxsOf(items, k)]]
      /\ unprocIdxs' = [unprocIdxs EXCEPT ![t] = [k \in Keys |-> idxsOf(items, k)]]
      /\ unproc' = [unproc EXCEPT ![t] = unpItemsOf(items)]
      /\ unprocDom' = unprocDom \cup {t}

\* Client.BatchPut / Client.BatchDelete / Client.BatchGet.
NewBatch(kind, t, items, typeOk) ==
  /\ pc = "build" /\ bKind = "none"
  /\ bKind' = kind
  /\ IF typeOk
       THEN /\ bErr' = ""
            /\ bTables' = {t}
            /\ addItems(t, items)
       ELSE /\ bErr' = "invalid type"
            /\ bTables' = IF kind = "delete" THEN {t} ELSE {}
            /\ UNCHANGED <<bItems, unproc, unprocDom, unprocIdxs, itemIdxs, unpCount, errs>>
  /\ UNCHANGED <<pc, citems, runResult, sentNew, returned, decoded>>
  /\ UNCHANGED <<queryVars, streamVars, pureVars>>

\* A chained call that registers a table again, replacing its slice.
Chain_again(t, items, typeOk) ==
  /\ pc = "build" /\ bKind # "none"
  /\ IF bErr # ""
       THEN UNCHANGED <<bErr, bTables, bItems, unproc, unprocDom, unprocIdxs,
                        itemIdxs, unpCount, errs>>
       ELSE IF ~typeOk
         THEN /\ bErr' = "invalid type"
              /\ UNCHANGED <<bTables, bItems, unproc, unprocDom, unprocIdxs,
                             itemIdxs, unpCount, errs>>
         ELSE /\ bErr' = ""
              /\ bTables' = bTables \cup {t}
              /\ addItems(t, items)
  /\ UNCHANGED <<pc, bKind, citems, runResult, sentNew, returned, decoded>>
  /\ UNCHANGED <<queryVars, streamVars, pureVars>>

\* BatchPut.Put / BatchDelete.Delete / BatchGet.Get.
Chain(t, items, typeOk) ==
  /\ pc = "build" /\ bKind # "none"
  /\ IF bErr # ""
       THEN UNCHANGED <<bErr, bTables, bItems, unproc, unprocDom, unprocIdxs,
                        itemIdxs, unpCount, errs>>
       ELSE IF t \in bTables
         THEN /\ bErr' = "only one operation per table"
              /\ UNCHANGED <<bTables, bItems, unproc, unprocDom, unprocIdxs,
                             itemIdxs, unpCount, errs>>
         ELSE IF ~typeOk
           THEN /\ bErr' = "invalid type"
                /\ UNCHANGED <<bTables, bItems, unproc, unprocDom, unprocIdxs,
                               itemIdxs, unpCount, errs>>
           ELSE /\ bErr' = ""
                /\ bTables' = bTables \cup {t}
                /\ addItems(t, items)
  /\ UNCHANGED <<pc, bKind, citems, runResult, sentNew, returned, decoded>>
  /\ UNCHANGED <<queryVars, streamVars, pureVars>>

\* The entries collectItems appended to the carried-over citems.
newEntries(before, after) ==
  [t \in Tables |-> SubSeq(after[t], Len(before[t]) + 1, Len(after[t]))]

countNew(sn, fresh) ==
  [t \in Tables |-> [k \in Keys |->
     sn[t][k] + Cardinality({i \in 1..Len(fresh[t]) : getIndexKey(t, fresh[t][i]) = k})]]

\* The replies a batch call can get: per table, the entries left unprocessed.
Unprocessed(req) == {u \in [Tables -> UNION {SubSeqs(req[t]) : t \in Tables}] :
                      \A t \in Tables : u[t] \in SubSeqs(req[t])}

\* Run, on entry: a builder error is returned before any call.
RunStart ==
  /\ pc = "build" /\ bKind # "none"
  /\ IF bErr # ""
       THEN pc' = "done" /\ runResult' = "builderErr"
       ELSE pc' = "run" /\ runResult' = ""
  /\ citems' = EmptySlots
  /\ UNCHANGED <<bKind, bErr, bTables, bItems, unproc, unprocDom, unprocIdxs,
                 itemIdxs, unpCount, errs, sentNew, returned, decoded>>
  /\ UNCHANGED <<queryVars, streamVars, pureVars>>

\* The head of a loop iteration of Run: the loop condition holds,
\* collectItems fills citems and the network batch call is issued.
RunSend ==
  /\ pc = "run"
  /\ \E ie \in isEmpty(unproc, unprocDom) :
       /\ ~ie.empty \/ SumLen(citems, Tables) > 0
       /\ \E r \in collectItems(batchSizeOf(bKind), citems, unproc, ie.dom, unpCount) :
            /\ unproc' = r.q /\ unprocDom' = ie.dom /\ unpCount' = r.cnt
            /\ sentNew' = countNew(sentNew, newEntries(citems, r.c))
            /\ citems' = r.c
  /\ pc' = "call"
  /\ UNCHANGED <<bKind, bErr, bTables, bItems, unprocIdxs, itemIdxs, errs,
                 runResult, returned, decoded>>
  /\ UNCHANGED <<queryVars, streamVars, pureVars>>

\* BatchPut.Run / BatchDelete.Run after a successful BatchWriteItem that
\* left u unprocessed: processItems(citems, unproc, nil); citems = unproc.
WriteReply(u) ==
  /\ unprocIdxs' = processItems(unprocIdxs, citems, u)
  /\ citems' = u
  /\ UNCHANGED <<errs, returned, decoded>>

\* BatchGet.Run after a successful BatchGetItem: u is left unprocessed,
\* found is returned in Responses, the items of bad fail to decode.
GetReply(u, found, bad) ==
  LET P == processedKeys(found, u)
      B == ikeysOf(bad)
      hit(t, i, S) == \E k \in Keys : <<t, k>> \in S /\
                        \E j \in 1..Len(itemIdxs[t][k]) : itemIdxs[t][k][j] = i
  IN
  /\ unprocIdxs' = processItems(unprocIdxs, found, u)
  /\ errs' = [t \in Tables |-> [i \in 1..MaxItems |->
                IF hit(t, i, P \cap B) THEN "ErrDecode" ELSE errs[t][i]]]
  /\ decoded' = decoded \cup
                  {<<t, i>> \in Tables \X (1..MaxItems) : hit(t, i, P \ B)}
  /\ returned' = returned \cup ikeysOf(found)
  /\ citems' = u

\* What is left of a request once u is taken out.
RECURSIVE without(_, _)
without(s, u) ==
  IF s = <<>> THEN <<>>
  ELSE IF u # <<>> /\ Head(s) = Head(u) THEN without(Tail(s), Tail(u))
  ELSE <<Head(s)>> \o without(Tail(s), u)

Found(req, u) ==
  {f \in [Tables -> UNION {SubSeqs(req[t]) : t \in Tables}] :
     \A t \in Tables : f[t] \in SubSeqs(without(req[t], u[t]))}

\* The network batch call returns without error.
RunReply ==
  /\ pc = "call"
  /\ \E u \in Unprocessed(citems) :
       IF bKind = "get"
         THEN \E found \in Found(citems, u) : \E bad \in Found(found, EmptySlots) :
                GetReply(u, found, bad)
         ELSE WriteReply(u)
  /\ pc' = "run"
  /\ UNCHANGED <<bKind, bErr, bTables, bItems, unproc, unprocDom, itemIdxs,
                 unpCount, runResult, sentNew>>
  /\ UNCHANGED <<queryVars, streamVars, pureVars>>

\* The network batch call fails: Run returns the wrapped transport error.
RunReplyErr ==
  /\ pc = "call"
  /\ pc' = "done" /\ runResult' = "transportErr"
  /\ UNCHANGED <<bKind, bErr, bTables, bItems, unproc, unprocDom, unprocIdxs,
                 itemIdxs, unpCount, errs, citems, sentNew, returned, decoded>>
  /\ UNCHANGED <<queryVars, streamVars, pureVars>>

\* The loop of Run ends: BatchGet flushes what is still pending as
\* ErrNoSuchItem, and Run returns errors().
RunReturn ==
  /\ pc = "run"
  /\ \E ie \in isEmpty(unproc, unprocDom) :
       /\ ie.empty /\ SumLen(citems, Tables) = 0
       /\ unprocDom' = ie.dom
  /\ errs' = IF bKind = "get" THEN flushUnproc(errs, unprocIdxs, "ErrNoSuchItem") ELSE errs
  /\ runResult' = errors(errs')
  /\ pc' = "done"
  /\ UNCHANGED <<bKind, bErr, bTables, bItems, unproc, unprocIdxs, itemIdxs,
                 unpCount, citems, sentNew, returned, decoded>>
  /\ UNCHANGED <<queryVars, streamVars, pureVars>>

BatchKinds == {"put", "delete", "get"}

Build(n) ==
  \/ \E kind \in BatchKinds, t \in Tables, items \in ItemSlices(n), ok \in BOOLEAN :
       NewBatch(kind, t, items, ok)
  \/ \E t \in Tables, items \in ItemSlices(n - SumLen(bItems, Tables)), ok \in BOOLEAN :
       Chain(t, items, ok)

Next ==
  \/ Build(MaxItems)
  \/ RunStart
  \/ RunSend
  \/ RunReply
  \/ RunReplyErr
  \/ RunReturn

Spec == Init /\ [][Next]_vars

\* ------------------------------------------------- transport variants
\* A batch call answered by returning every entry as unprocessed.
RunReplyNone ==
  /\ pc = "call"
  /\ IF bKind = "get" THEN GetReply(citems, EmptySlots, EmptySlots) ELSE WriteReply(citems)
  /\ pc' = "run"
  /\ UNCHANGED <<bKind, bErr, bTables, bItems, unproc, unprocDom, itemIdxs,
                 unpCount, runResult, sentNew>>
  /\ UNCHANGED <<queryVars, streamVars, pureVars>>

\* A batch call answered by processing every entry; BatchGet finds the
\* items of found.
RunReplyAll ==
  /\ pc = "call"
  /\ IF bKind = "get"
       THEN \E found \in Found(citems, EmptySlots) : GetReply(EmptySlots, found, EmptySlots)
       ELSE WriteReply(EmptySlots)
  /\ pc' = "run"
  /\ UNCHANGED <<bKind, bErr, bTables, bItems, unproc, unprocDom, itemIdxs,
                 unpCount, runResult, sentNew>>
  /\ UNCHANGED <<queryVars, streamVars, pureVars>>

\* The transport that never processes anything.
StubbornNext ==
  \/ Build(MaxItems)
  \/ RunStart
  \/ RunSend
  \/ RunReplyNone
  \/ RunReturn

StubbornSpec ==
  /\ Init /\ [][StubbornNext]_vars
  /\ WF_vars(RunStart) /\ WF_vars(RunSend) /\ WF_vars(RunReplyNone) /\ WF_vars(RunReturn)

\* The transport that never fails and again and again processes what it is sent.
ProgressNext ==
  \/ Build(MaxItems)
  \/ RunStart
  \/ RunSend
  \/ RunReply
  \/ RunReplyAll
  \/ RunReturn

ProgressSpec ==
  /\ Init /\ [][ProgressNext]_vars
  /\ WF_vars(RunStart) /\ WF_vars(RunSend) /\ WF_vars(RunReturn)
  /\ WF_vars(RunReply) /\ SF_vars(RunReplyAll)

\* The store's answer to a batch call.  BatchWriteItem and BatchGetItem require
\* RequestItems to hold at least one table, so a call without entries is
\* refused, and Run returns the wrapped error; any other call is processed,
\* in part or in whole.
StoreReply ==
  IF SumLen(citems, Tables) = 0 THEN RunReplyErr ELSE RunReply

\* The transport that fails on no call the store accepts.
StrictNext ==
  \/ Build(MaxItems)
  \/ RunStart
  \/ RunSend
  \/ StoreReply
  \/ RunReturn

StrictSpec == Init /\ [][StrictNext]_vars

\* ------------------------------------------------------------- Query
FilterState == <<qHashExpr, qRangeExpr, qNFilters, qFilterExpr>>
builderVars == <<qErr, qTable, qIndex, qHashExpr, qRangeExpr, qNFilters, qFilterExpr,
                 qLimit, qScanForward, qConsistent,
                 qAttrNames, qAttrValues, qSupplied, qCalled>>
bindVars == <<qAttrNames, qAttrValues, qSupplied>>
iterVars == <<itOp, itIndex, itItems, itLastKey, itLimit, storePages, lastHasNext,
              fetchFailed, requested, lateFetch, qInput, yielded>>

\* Client.Query(tableName).
NewQuery(tableName) ==
  /\ qpc = "none"
  /\ qpc' = "build"
  /\ IF tableName = ""
       THEN /\ qErr' = "empty table name"
            /\ qTable' = "" /\ qLimit' = 0 /\ qScanForward' = FALSE
       ELSE /\ qErr' = ""
            /\ qTable' = tableName /\ qLimit' = -1 /\ qScanForward' = TRUE
  /\ qConsistent' = FALSE
  /\ UNCHANGED <<qIndex, qHashExpr, qRangeExpr, qNFilters, qFilterExpr, callerErr>>
  /\ UNCHANGED <<bindVars, qCalled, iterVars, batchVars, streamVars, pureVars>>

\* Query.Index(indexName).
Index(indexName) ==
  /\ qpc = "build"
  /\ qIndex' = IF qErr # "" THEN qIndex ELSE indexName
  /\ UNCHANGED <<qpc, qErr, qTable, qHashExpr, qRangeExpr, qNFilters, qFilterExpr,
                 qLimit, qScanForward, qConsistent, callerErr>>
  /\ UNCHANGED <<bindVars, qCalled, iterVars, batchVars, streamVars, pureVars>>

\* Query.Limit(limit).
Limit(limit) ==
  /\ qpc = "build"
  /\ IF qErr # "" THEN UNCHANGED <<qErr, qLimit>>
     ELSE IF limit <= 0
       THEN qErr' = "limit must be greater than zero" /\ UNCHANGED qLimit
       ELSE qLimit' = limit /\ UNCHANGED qErr
  /\ UNCHANGED <<qpc, qTable, qIndex, qHashExpr, qRangeExpr, qNFilters, qFilterExpr,
                 qScanForward, qConsistent, callerErr>>
  /\ UNCHANGED <<bindVars, qCalled, iterVars, batchVars, streamVars, pureVars>>

\* Query.Desc().
Desc ==
  /\ qpc = "build"
  /\ qScanForward' = FALSE
  /\ UNCHANGED <<qpc, qErr, qTable, qIndex, qHashExpr, qRangeExpr, qNFilters,
                 qFilterExpr, qLimit, qConsistent, callerErr>>
  /\ UNCHANGED <<bindVars, qCalled, iterVars, batchVars, streamVars, pureVars>>

\* Query.Consistent().
Consistent ==
  /\ qpc = "build"
  /\ qConsistent' = TRUE
  /\ UNCHANGED <<qpc, qErr, qTable, qIndex, qHashExpr, qRangeExpr, qNFilters,
                 qFilterExpr, qLimit, qScanForward, callerErr>>
  /\ UNCHANGED <<bindVars, qCalled, iterVars, batchVars, streamVars, pureVars>>

\* The values a caller supplies for placeholders.
Values == {"v1", "v2"}

\* What parseExpression makes of the expressions the callers of this model
\* write: the attribute name, which parseExprAttrName binds to the name
\* placeholder "#" + name + "_PH", and the value placeholders.
Compiled(expr) ==
  CASE expr = "Range > :r"  -> [name |-> "Range", phs |-> <<":r">>]
    [] expr = "Range > :hv" -> [name |-> "Range", phs |-> <<":hv">>]
    [] expr = "Value = :f"  -> [name |-> "Value", phs |-> <<":f">>]
    [] expr = "Other = :f"  -> [name |-> "Other", phs |-> <<":f">>]
    [] expr = "Value = :r"  -> [name |-> "Value", phs |-> <<":r">>]

\* v.attrNames and v.attrValues of a compiled expression, as bindings.
attrNames(expr) ==
  {<<"#" \o Compiled(expr).name \o "_PH", Compiled(expr).name>>}
attrValues(expr, values) ==
  {<<Compiled(expr).phs[i], values[i]>> : i \in 1..Len(Compiled(expr).phs)}

\* addAttributeName / addAttributeValue for each binding of binds:
\* q.attributeNames[placeholder] = value, whatever the map held before.
addAttributes(m, binds) ==
  {b \in m : \A n \in binds : n[1] # b[1]} \cup binds

\* Query.HashFilter(name, value); value is "nil", a convertible value (one of
\* Values) or one dbattribute.ConvertTo rejects ("bad").
HashFilter(name, value) ==
  /\ qpc = "build"
  /\ qCalled' = [call |-> "HashFilter", expr |-> name,
                 nvalues |-> IF value = "nil" THEN 0 ELSE 1]
  /\ IF qErr = "" /\ name # "" /\ value # "nil"
       THEN /\ qHashExpr' = <<"#H = :hv">>
            /\ qAttrNames' = addAttributes(qAttrNames, {<<"#H", name>>})
            /\ IF value = "bad"
                 THEN /\ qErr' = "hash filter value is invalid"
                      /\ qSupplied' = [qSupplied EXCEPT !.hash = {<<"#H", name>>}]
                      /\ UNCHANGED qAttrValues
                 ELSE /\ qErr' = ""
                      /\ qAttrValues' = addAttributes(qAttrValues, {<<":hv", value>>})
                      /\ qSupplied' = [qSupplied EXCEPT
                                         !.hash = {<<"#H", name>>, <<":hv", value>>}]
       ELSE UNCHANGED <<qHashExpr, qErr, bindVars>>
  /\ UNCHANGED <<qpc, qTable, qIndex, qRangeExpr, qNFilters, qFilterExpr,
                 qLimit, qScanForward, qConsistent, callerErr>>
  /\ UNCHANGED <<iterVars, batchVars, streamVars, pureVars>>

\* What parseExpression(expr, values) answers: parsed tells whether the
\* expression is one it accepts and the values convert.
parseError(expr, values, parsed) ==
  IF ~parsed THEN "invalid expression"
  ELSE IF Len(Compiled(expr).phs) > Len(values) THEN "inadequate expression values"
  ELSE ""

\* Query.RangeFilter(expr, values...).
RangeFilter(expr, values, parsed) ==
  /\ qpc = "build"
  /\ qCalled' = [call |-> "RangeFilter", expr |-> expr, nvalues |-> Len(values)]
  /\ IF qErr = "" /\ expr # "" /\ Len(values) > 0
       THEN IF parseError(expr, values, parsed) = ""
              THEN /\ qRangeExpr' = <<" AND ", expr>>
                   /\ qAttrNames' = addAttributes(qAttrNames, attrNames(expr))
                   /\ qAttrValues' = addAttributes(qAttrValues, attrValues(expr, values))
                   /\ qSupplied' = [qSupplied EXCEPT
                                      !.range = attrNames(expr) \cup attrValues(expr, values)]
                   /\ UNCHANGED qErr
              ELSE /\ qErr' = parseError(expr, values, parsed)
                   /\ UNCHANGED <<qRangeExpr, bindVars>>
       ELSE UNCHANGED <<qRangeExpr, qErr, bindVars>>
  /\ UNCHANGED <<qpc, qTable, qIndex, qHashExpr, qNFilters, qFilterExpr,
                 qLimit, qScanForward, qConsistent, callerErr>>
  /\ UNCHANGED <<iterVars, batchVars, streamVars, pureVars>>

\* Query.Filter(expr, values...).
Filter(expr, values, parsed) ==
  /\ qpc = "build"
  /\ qNFilters < MaxFilters
  /\ qCalled' = [call |-> "Filter", expr |-> expr, nvalues |-> Len(values)]
  /\ IF qErr = "" /\ expr # ""
       THEN IF parseError(expr, values, parsed) = ""
              THEN /\ qFilterExpr' = (IF qNFilters > 0 THEN Append(qFilterExpr, " AND ")
                                      ELSE qFilterExpr) \o <<expr>>
                   /\ qNFilters' = qNFilters + 1
                   /\ qAttrNames' = addAttributes(qAttrNames, attrNames(expr))
                   /\ qAttrValues' = addAttributes(qAttrValues, attrValues(expr, values))
                   /\ qSupplied' = [qSupplied EXCEPT
                                      !.filter = @ \cup attrNames(expr)
                                                   \cup attrValues(expr, values)]
                   /\ UNCHANGED qErr
              ELSE /\ qErr' = parseError(expr, values, parsed)
                   /\ UNCHANGED <<qFilterExpr, qNFilters, bindVars>>
       ELSE UNCHANGED <<qFilterExpr, qNFilters, qErr, bindVars>>
  /\ UNCHANGED <<qpc, qTable, qIndex, qHashExpr, qRangeExpr,
                 qLimit, qScanForward, qConsistent, callerErr>>
  /\ UNCHANGED <<iterVars, batchVars, streamVars, pureVars>>

\* The result pages a store can hold for a request with the given Limit. The
\* store applies Limit to the items it reads and the filter expression after
\* it: without a filter every page but the last is full (Limit items, or at
\* least one item when there is no Limit); with a filter a page holds any
\* number of items up to Limit, none included. Every page but the last comes
\* with a LastEvaluatedKey.
PageSeqs(maxPages, limit, filtered) ==
  {ps \in UNION {[1..m -> 0..MaxPageItems] : m \in 1..maxPages} :
     \A i \in 1..Len(ps) :
       /\ limit # -1 => ps[i] <= limit
       /\ (~filtered /\ i < Len(ps)) => ps[i] = (IF limit # -1 THEN limit ELSE Max(ps[i], 1))}

\* The output of the Query / Scan call for page p: a failed call leaves the
\* output empty (the error is dropped: "qout, _ :=").
fetchPage(pages, p, fail) ==
  IF fail THEN [items |-> <<>>, lastKey |-> 0]
  ELSE [items |-> [i \in 1..pages[p] |-> <<p, i>>],
        lastKey |-> IF p < Len(pages) THEN p ELSE 0]

\* Run's request with the key condition left out of the Query.
queryInput_noKeyCondition(hashExpr, rangeExpr, filterExpr) ==
  IF hashExpr # <<>>
    THEN [op |-> "query", KeyConditionExpression |-> <<>>,
          FilterExpression |-> filterExpr \o hashExpr \o rangeExpr]
    ELSE [op |-> "scan", KeyConditionExpression |-> <<>>,
          FilterExpression |-> filterExpr \o rangeExpr]

\* The request Run builds: a QueryInput when the query has a key condition,
\* a ScanInput with the range expression appended to the filter otherwise.
queryInput(hashExpr, rangeExpr, filterExpr) ==
  IF hashExpr # <<>>
    THEN [op |-> "query", KeyConditionExpression |-> hashExpr \o rangeExpr,
          FilterExpression |-> filterExpr]
    ELSE [op |-> "scan", KeyConditionExpression |-> <<>>,
          FilterExpression |-> filterExpr \o rangeExpr]

\* Query.Run().
QueryRun(maxPages) ==
  /\ qpc = "build"
  /\ qpc' = "iter"
  /\ callerErr' = ""
  /\ IF qErr # ""
       THEN /\ itOp' = "" /\ itLimit' = 0 /\ itItems' = <<>> /\ itLastKey' = 0
            /\ UNCHANGED <<storePages, fetchFailed, requested, qInput>>
       ELSE \E pages \in PageSeqs(maxPages, qLimit,
                                    qNFilters > 0 \/ (qHashExpr = <<>> /\ qRangeExpr # <<>>)) :
            \E fail \in BOOLEAN :
              LET out == fetchPage(pages, 1, fail) IN
              /\ storePages' = pages
              /\ qInput' = queryInput(qHashExpr, qRangeExpr, qFilterExpr)
              /\ itOp' = qInput'.op
              /\ itLimit' = qLimit
              /\ itItems' = out.items
              /\ itLastKey' = out.lastKey
              /\ fetchFailed' = fail
              /\ requested' = TRUE
  /\ itIndex' = 0
  /\ UNCHANGED <<builderVars, lastHasNext, lateFetch, yielded>>
  /\ UNCHANGED <<batchVars, streamVars, pureVars>>

\* ItemIterator.HasNext(): its result and the iterator it leaves, when the
\* continuation fetch, if one is made, fails or not.
itemHasNext(fail) ==
  LET same == [ret |-> FALSE, index |-> itIndex, items |-> itItems,
               lastKey |-> itLastKey, fetched |-> FALSE]
  IN IF itIndex < Len(itItems) THEN [same EXCEPT !.ret = TRUE]
     ELSE IF itLastKey > 0 /\ (itLimit = -1 \/ itIndex < itLimit)
       THEN LET out == fetchPage(storePages, itLastKey + 1, fail)
            IN IF Len(out.items) = 0 THEN [same EXCEPT !.fetched = TRUE]
               ELSE [ret |-> TRUE, index |-> 0, items |-> out.items,
                     lastKey |-> out.lastKey, fetched |-> TRUE]
       ELSE same

\* The caller calls ItemIterator.HasNext().
ItemIterator_HasNext ==
  /\ qpc = "iter"
  /\ \E fail \in BOOLEAN :
       LET r == itemHasNext(fail) IN
       /\ fail => r.fetched
       /\ itIndex' = r.index /\ itItems' = r.items /\ itLastKey' = r.lastKey
       /\ lastHasNext' = IF r.ret THEN "true" ELSE "false"
       /\ fetchFailed' = (fetchFailed \/ fail)
       /\ lateFetch' = (lateFetch \/ (r.fetched /\ itLimit # -1 /\ Len(yielded) >= itLimit))
  /\ callerErr' = ""
  /\ UNCHANGED <<qpc, builderVars, itOp, itLimit, storePages, requested, qInput, yielded>>
  /\ UNCHANGED <<batchVars, streamVars, pureVars>>

\* The caller calls ItemIterator.Next(item); dest is "nil", a destination
\* the item decodes into ("ok") or one it does not ("bad").
ItemIterator_Next(dest) ==
  /\ qpc = "iter"
  /\ \E fail \in BOOLEAN :
       LET r == itemHasNext(fail) IN
       /\ fail => r.fetched
       /\ itItems' = r.items /\ itLastKey' = r.lastKey
       /\ fetchFailed' = (fetchFailed \/ fail)
       /\ lateFetch' = (lateFetch \/ (r.fetched /\ itLimit # -1 /\ Len(yielded) >= itLimit))
       /\ IF ~r.ret
            THEN /\ callerErr' = "no more items to return"
                 /\ itIndex' = r.index /\ UNCHANGED yielded
            ELSE IF dest = "bad"
              THEN /\ callerErr' = "invalid item"
                   /\ itIndex' = r.index /\ UNCHANGED yielded
              ELSE /\ callerErr' = ""
                   /\ itIndex' = r.index + 1
                   /\ yielded' = Append(yielded, r.items[r.index + 1])
  /\ UNCHANGED <<qpc, builderVars, itOp, itLimit, storePages, requested, qInput,
                 lastHasNext>>
  /\ UNCHANGED <<batchVars, streamVars, pureVars>>

\* The builder, with every chained call, and Run.
QueryNext ==
  \/ \E tableName \in {"", "Items"} : NewQuery(tableName)
  \/ \E indexName \in {"", "ByDate"} : Index(indexName)
  \/ \E limit \in -1..MaxLimit : Limit(limit)
  \/ Desc
  \/ Consistent
  \/ \E name \in {"", "Hash"}, value \in {"nil", "v1", "bad"} : HashFilter(name, value)
  \/ \E expr \in {"", "Range > :r"}, values \in {<<>>, <<"v1">>}, parsed \in BOOLEAN :
       RangeFilter(expr, values, parsed)
  \/ \E expr \in {"", "Value = :f"}, values \in {<<>>, <<"v1">>}, parsed \in BOOLEAN :
       Filter(expr, values, parsed)
  \/ QueryRun(1)
  \/ ItemIterator_HasNext
  \/ \E dest \in {"nil", "ok", "bad"} : ItemIterator_Next(dest)

QuerySpec == Init /\ [][QueryNext]_vars

\* A query or a scan with or without a limit, run and iterated.
IterNext ==
  \/ NewQuery("Items")
  \/ \E limit \in 1..MaxLimit : Limit(limit)
  \/ HashFilter("Hash", "v1")
  \/ Filter("Value = :f", <<"v1">>, TRUE)
  \/ QueryRun(MaxPages)
  \/ ItemIterator_HasNext
  \/ \E dest \in {"nil", "ok", "bad"} : ItemIterator_Next(dest)

IterSpec == Init /\ [][IterNext]_vars

\* A query built from hash, range and post filters whose expressions share
\* value placeholders, then run.
BindNext ==
  \/ NewQuery("Items")
  \/ \E value \in Values : HashFilter("Hash", value)
  \/ \E expr \in {"Range > :r", "Range > :hv"}, value \in Values :
       RangeFilter(expr, <<value>>, TRUE)
  \/ \E expr \in {"Value = :f", "Other = :f", "Value = :r"}, value \in Values :
       Filter(expr, <<value>>, TRUE)
  \/ QueryRun(1)

BindSpec == Init /\ [][BindNext]_vars

\* ------------------------------------------------------------- stream
\* A sequence number is a string of decimal digits: its digits, most
\* significant first.
RECURSIVE Digits(_)
Digits(n) == IF n < 10 THEN <<n>> ELSE Append(Digits(n \div 10), n % 10)

\* Go's < on two strings of the same length.
StrLess(a, b) ==
  \E i \in 1..Len(a) : a[i] < b[i] /\ \A j \in 1..(i - 1) : a[j] = b[j]

\* seqNum.less
less(sn, num) ==
  IF num = NIL THEN TRUE
  ELSE IF Len(Digits(sn)) # Len(Digits(num)) THEN Len(Digits(sn)) < Len(Digits(num))
  ELSE StrLess(Digits(sn), Digits(num))

\* seqNum.lessEq
lessEq(sn, num) == IF sn = num THEN TRUE ELSE less(sn, num)

\* seqNumRange.has, for the range of shard sh.
has(sh, sn) ==
  IF sn = NIL THEN FALSE
  ELSE lessEq(shStart[sh], sn) /\ (shEnd[sh] = NIL \/ ~less(shEnd[sh], sn))

\* sort.Sort(bySeqNum(shards)): the starting sequence numbers of the shards
\* of a stream differ, so the order is unique.
bySeqNum(S) ==
  CHOOSE p \in Perms(S) :
    \A i, j \in 1..Cardinality(S) : i < j => less(shStart[p[i]], shStart[p[j]])

\* A getShards that keeps every shard of the page.
getShards_all(page) == bySeqNum(page)

\* RecordIterator.getShards: the shards of a page that are not processed
\* yet, sorted by starting sequence number.
getShards(page) == bySeqNum({sh \in page : sh \notin sProcessed})

\* The outcomes of a call of the DynamoDB Streams client.
Outcomes == IF sFailures < MaxFailures THEN {"ok", "notFound", "error"} ELSE {"ok"}
Failed(o) == IF o = "ok" THEN 0 ELSE 1

\* The outcomes of a call on the stream (sh = NIL) or on shard sh of it: a
\* deleted stream and a trimmed shard answer resource-not-found, an expired
\* shard iterator token answers ExpiredIteratorException.
Gone(sh) == streamGone \/ sh \in shardsGone
CallOutcomes(sh, expired) ==
  IF Gone(sh) THEN {"notFound"} ELSE IF expired THEN {"error"} ELSE Outcomes
\* What a call adds to sFailures.
Passing(sh, expired, o) == IF Gone(sh) \/ expired THEN 0 ELSE Failed(o)

\* The position in shard sh right after sequence number sn.
AfterSeq(sh, sn) == Cardinality({i \in 1..Len(shRecs[sh]) : shRecs[sh][i] <= sn})

\* A newShardIterator that hands back every failure of its last call as a
\* plain error, the resource-not-found code lost.
newShardIterator_plainErr(sh, excl, o1, o2) ==
  IF has(sh, excl) /\ o1 = "ok"
    THEN [err |-> "", id |-> <<sh, AfterSeq(sh, excl)>>]
    ELSE IF o2 # "ok" THEN [err |-> "error", id |-> NoIterator]
    ELSE [err |-> "", id |-> <<sh, 0>>]

\* newShardIterator(dbs, arn, shard, exclStartSeqNum): o1 is the outcome of
\* the AFTER_SEQUENCE_NUMBER call (made if the shard's range has the number),
\* o2 that of the TRIM_HORIZON call (made otherwise, or when the first fails).
newShardIterator(sh, excl, o1, o2) ==
  IF has(sh, excl) /\ o1 = "ok"
    THEN [err |-> "", id |-> <<sh, AfterSeq(sh, excl)>>]
    ELSE IF o2 # "ok" THEN [err |-> o2, id |-> NoIterator]
    ELSE [err |-> "", id |-> <<sh, 0>>]

\* The calls newShardIterator makes with these outcomes ("ok" stands for a
\* call that is not made), and what they add to sFailures.
IteratorCost(sh, o1, o2) == Passing(sh, FALSE, o1) + Passing(sh, FALSE, o2)
IteratorCalls(sh, excl, o1, o2) ==
  /\ o1 \in (IF has(sh, excl) THEN CallOutcomes(sh, FALSE) ELSE {"ok"})
  /\ o2 \in (IF has(sh, excl) /\ o1 = "ok" THEN {"ok"} ELSE CallOutcomes(sh, FALSE))
  /\ IteratorCost(sh, o1, o2) <= MaxFailures - sFailures

\* The reply of GetRecords for a shard iterator token.
GetRecordsReply(token) ==
  LET sh == token[1]
      from == token[2]
      to == IF from + RecordsPerCall < Len(shRecs[sh]) THEN from + RecordsPerCall
            ELSE Len(shRecs[sh])
  IN [Records |-> SubSeq(shRecs[sh], from + 1, to),
      NextShardIterator |-> IF shEnd[sh] # NIL /\ to = Len(shRecs[sh]) THEN NoIterator
                            ELSE <<sh, to>>]

\* The shards one DescribeStream reply lists after ExclusiveStartShardId, and
\* its LastEvaluatedShardId.
DescribeReply(exclStart) ==
  LET after == {sh \in 1..Len(shStart) : sh > exclStart /\ sh \notin shardsGone}
      page == {sh \in after : Cardinality({x \in after : x < sh}) < shLimit}
  IN [Shards |-> page,
      LastEvaluatedShardId |-> IF page # after
                                 THEN CHOOSE sh \in page : \A x \in page : x <= sh
                                 ELSE NIL]

storeVars == <<shStart, shEnd, shRecs, seqCtr, streamStatus, streamGone, shardsGone,
               shLimit>>
passVars == <<sWait, pShards, pLastEval, stId, shardIt, stExpired, itExpired>>
AllOutcomes == {"ok", "notFound", "error"}

\* Client.GetStream(tableName): DescribeTable fails, or the table has no
\* stream (an empty ARN), or it has one.
GetStream(table) ==
  /\ spc = "none"
  /\ IF table = "err"
       THEN /\ sCallerErr' = "cannot get stream"
            /\ UNCHANGED <<spc, sArn>>
       ELSE /\ sCallerErr' = ""
            /\ spc' = "idle"
            /\ sArn' = IF table = "stream" THEN "arn" ELSE ""
  /\ UNCHANGED <<storeVars, passVars, sIndex, sRecords, sLastRecSeqNum, sLastShardID,
                 sProcessed, sRet, sYielded, sFailures, sDescribes>>
  /\ UNCHANGED <<batchVars, queryVars, pureVars>>

\* getNext(wait) up to its ticker loop.
getNext(wait) ==
  /\ spc = "idle"
  /\ IF sArn = ""
       THEN sRet' = "false" /\ UNCHANGED <<spc, sIndex, sRecords, sWait>>
     ELSE IF sIndex < Len(sRecords)
       THEN sRet' = "true" /\ UNCHANGED <<spc, sIndex, sRecords, sWait>>
     ELSE /\ sIndex' = 0 /\ sRecords' = <<>>
          /\ sWait' = wait
          /\ sRet' = "none"
          /\ spc' = "describe"
  /\ sDescribes' = 0
  /\ UNCHANGED <<storeVars, sArn, sLastRecSeqNum, sLastShardID, sProcessed, pShards,
                 pLastEval, stId, shardIt, stExpired, itExpired, sCallerErr, sYielded,
                 sFailures>>
  /\ UNCHANGED <<batchVars, queryVars, pureVars>>

\* RecordIterator.HasNext()
RecordIterator_HasNext == getNext(FALSE)

\* RecordIterator.WaitNext()
RecordIterator_WaitNext == getNext(TRUE)

\* Where getNext goes once the shards of the page are done (rest = <<>>) or
\* the shard loop moves on: the next shard, the end of getNext ("idle", with
\* its result), or one more turn of the ticker loop.
AfterShard(rest, recs, lastEval, wait) ==
  IF rest # <<>> THEN [pc |-> "shard", ret |-> "none"]
  ELSE IF (lastEval = NIL /\ ~wait) \/ Len(recs) > 0
    THEN [pc |-> "idle", ret |-> IF Len(recs) > 0 THEN "true" ELSE "false"]
  ELSE [pc |-> "describe", ret |-> "none"]

\* getNext: one DescribeStream call of the ticker loop.
getNext_describe ==
  /\ spc = "describe"
  /\ sDescribes' = IF sDescribes < 2 THEN sDescribes + 1 ELSE sDescribes
  /\ \E o \in CallOutcomes(NIL, FALSE) :
       /\ sFailures' = sFailures + Passing(NIL, FALSE, o)
       /\ IF o = "notFound"
            THEN /\ spc' = "idle" /\ sRet' = "false"
                 /\ UNCHANGED <<sLastShardID, sWait, pShards, pLastEval>>
          ELSE IF o = "error"
            \* resp.StreamDescription is nil: desc.LastEvaluatedShardId panics.
            THEN /\ spc' = "panic"
                 /\ UNCHANGED <<sRet, sLastShardID, sWait, pShards, pLastEval>>
          ELSE LET desc == DescribeReply(sLastShardID)
                   wait == IF streamStatus = "DISABLED" THEN FALSE ELSE sWait
                   shards == getShards(desc.Shards)
                   nxt == AfterShard(shards, sRecords, desc.LastEvaluatedShardId, wait)
               IN /\ sLastShardID' = IF desc.LastEvaluatedShardId # NIL
                                       THEN desc.LastEvaluatedShardId ELSE sLastShardID
                  /\ sWait' = wait
                  /\ pShards' = shards
                  /\ pLastEval' = desc.LastEvaluatedShardId
                  /\ spc' = nxt.pc /\ sRet' = nxt.ret
  /\ UNCHANGED <<storeVars, sArn, sIndex, sRecords, sLastRecSeqNum, sProcessed,
                 stId, shardIt, stExpired, itExpired, sCallerErr, sYielded>>
  /\ UNCHANGED <<batchVars, queryVars, pureVars>>

\* getNext: the shard loop obtains the iterator of the next shard.
getNext_shard ==
  /\ spc = "shard"
  /\ \E o1, o2 \in AllOutcomes :
       LET sh == Head(pShards)
           st == newShardIterator(sh, sLastRecSeqNum, o1, o2)
           \* "break" leaves the shard loop.
           brk == AfterShard(<<>>, sRecords, pLastEval, sWait)
       IN /\ IteratorCalls(sh, sLastRecSeqNum, o1, o2)
          /\ sFailures' = sFailures + IteratorCost(sh, o1, o2)
          /\ IF st.err = "notFound"
               THEN /\ spc' = "idle" /\ sRet' = "false"
                    /\ UNCHANGED <<stId, shardIt, stExpired, itExpired>>
             ELSE IF st.err = "error"
               THEN /\ spc' = brk.pc /\ sRet' = brk.ret
                    /\ UNCHANGED <<stId, shardIt, stExpired, itExpired>>
             ELSE /\ stId' = st.id /\ shardIt' = st.id
                  /\ stExpired' = FALSE /\ itExpired' = FALSE
                  /\ spc' = "records" /\ UNCHANGED sRet
  /\ UNCHANGED <<storeVars, sArn, sIndex, sRecords, sLastRecSeqNum, sLastShardID,
                 sProcessed, sWait, pShards, pLastEval, sCallerErr, sYielded, sDescribes>>
  /\ UNCHANGED <<batchVars, queryVars, pureVars>>

\* getRecords: one GetRecords call of its ticker loop, up to the next call,
\* the refresh a failed call leads to, or the return into getNext's shard
\* loop. Every return of getRecords hands back its records and getNext
\* appends them before it looks at the error, so the records are appended to
\* it.records as they are read.
getRecords_fetch ==
  /\ spc = "records"
  /\ \E o \in CallOutcomes(Head(pShards), itExpired) :
       LET sh == Head(pShards)
           rest == Tail(pShards)
       IN IF o = "notFound"
            THEN /\ sFailures' = sFailures + Passing(sh, itExpired, o)
                 /\ spc' = "idle" /\ sRet' = "false"
                 /\ UNCHANGED <<sRecords, sLastRecSeqNum, sProcessed, pShards, shardIt>>
          ELSE IF o = "error"
            THEN /\ sFailures' = sFailures + Passing(sh, itExpired, o)
                 /\ spc' = "refresh"
                 /\ UNCHANGED <<sRecords, sLastRecSeqNum, sProcessed, pShards, shardIt,
                                sRet>>
          ELSE LET resp == GetRecordsReply(shardIt)
                   recs == sRecords \o resp.Records
                   nxt == AfterShard(rest, recs, pLastEval, sWait)
                   done == resp.NextShardIterator = NoIterator \/ Len(resp.Records) = 0
               IN /\ UNCHANGED sFailures
                  /\ sRecords' = recs
                  /\ sLastRecSeqNum' = IF Len(resp.Records) > 0
                                         THEN resp.Records[Len(resp.Records)]
                                         ELSE sLastRecSeqNum
                  /\ sProcessed' = IF resp.NextShardIterator = NoIterator
                                     THEN sProcessed \cup {sh} ELSE sProcessed
                  /\ shardIt' = IF resp.NextShardIterator = NoIterator THEN shardIt
                                ELSE resp.NextShardIterator
                  /\ IF done
                       THEN spc' = nxt.pc /\ sRet' = nxt.ret /\ pShards' = rest
                       ELSE UNCHANGED <<spc, sRet, pShards>>
  /\ UNCHANGED <<storeVars, sArn, sIndex, sLastShardID, sWait, pLastEval, stId,
                 stExpired, itExpired, sCallerErr, sYielded, sDescribes>>
  /\ UNCHANGED <<batchVars, queryVars, pureVars>>

\* getRecords after a failed GetRecords call: st.refresh(it.lastRecSeqNum).
\* refresh builds the new iterator into its own local st, so st.id of the
\* caller's iterator stays what it was and the next call uses it again.
shardIterator_refresh ==
  /\ spc = "refresh"
  /\ \E o1, o2 \in AllOutcomes :
       LET sh == Head(pShards)
           rest == Tail(pShards)
           st == newShardIterator(sh, sLastRecSeqNum, o1, o2)
           nxt == AfterShard(rest, sRecords, pLastEval, sWait)
       IN /\ IteratorCalls(sh, sLastRecSeqNum, o1, o2)
          /\ sFailures' = sFailures + IteratorCost(sh, o1, o2)
          /\ IF st.err = "notFound"
               THEN /\ spc' = "idle" /\ sRet' = "false"
                    /\ UNCHANGED <<pShards, shardIt, itExpired>>
             ELSE IF st.err = "error"
               THEN /\ spc' = nxt.pc /\ sRet' = nxt.ret
                    /\ pShards' = rest /\ UNCHANGED <<shardIt, itExpired>>
             ELSE /\ shardIt' = stId /\ itExpired' = stExpired
                  /\ spc' = "records"
                  /\ UNCHANGED <<sRet, pShards>>
  /\ UNCHANGED <<storeVars, sArn, sIndex, sRecords, sLastRecSeqNum, sLastShardID,
                 sProcessed, sWait, pLastEval, stId, stExpired, sCallerErr, sYielded,
                 sDescribes>>
  /\ UNCHANGED <<batchVars, queryVars, pureVars>>

\* A Next that moves on to the following record when the conversion fails.
RecordIterator_Next_skipBad(dest) ==
  /\ spc = "idle"
  /\ IF sIndex >= Len(sRecords)
       THEN sCallerErr' = "no more records to return" /\ UNCHANGED <<sIndex, sYielded>>
     ELSE IF dest = "bad"
       THEN sCallerErr' = "invalid record" /\ sIndex' = sIndex + 1 /\ UNCHANGED sYielded
     ELSE /\ sCallerErr' = ""
          /\ sIndex' = sIndex + 1
          /\ sYielded' = Append(sYielded, sRecords[sIndex + 1])
  /\ UNCHANGED <<storeVars, passVars, spc, sArn, sRecords, sLastRecSeqNum,
                 sLastShardID, sProcessed, sRet, sFailures, sDescribes>>
  /\ UNCHANGED <<batchVars, queryVars, pureVars>>

\* RecordIterator.Next(record); dest is "nil", a destination the record
\* converts into ("ok") or one it does not ("bad").
RecordIterator_Next(dest) ==
  /\ spc = "idle"
  /\ IF sIndex >= Len(sRecords)
       THEN sCallerErr' = "no more records to return" /\ UNCHANGED <<sIndex, sYielded>>
     ELSE IF dest = "bad"
       THEN sCallerErr' = "invalid record" /\ UNCHANGED <<sIndex, sYielded>>
     ELSE /\ sCallerErr' = ""
          /\ sIndex' = sIndex + 1
          /\ sYielded' = Append(sYielded, sRecords[sIndex + 1])
  /\ UNCHANGED <<storeVars, passVars, spc, sArn, sRecords, sLastRecSeqNum,
                 sLastShardID, sProcessed, sRet, sFailures, sDescribes>>
  /\ UNCHANGED <<batchVars, queryVars, pureVars>>

\* The table's writers and the store, while no HasNext pass is under way.
StoreQuiet == spc \in {"none", "idle"} \/ sWait

NumRecords == SumLen(shRecs, 1..Len(shRecs))

\* A mutation of the table appends a record to an open shard.
WriteRecord(sh) ==
  /\ StoreQuiet
  /\ shEnd[sh] = NIL
  /\ NumRecords < MaxRecords
  /\ shRecs' = [shRecs EXCEPT ![sh] = Append(@, seqCtr)]
  /\ seqCtr' = seqCtr + 1
  /\ UNCHANGED <<shStart, shEnd, streamStatus, streamGone, shardsGone, shLimit>>
  /\ UNCHANGED <<passVars, spc, sArn, sIndex, sRecords, sLastRecSeqNum, sLastShardID,
                 sProcessed, sRet, sCallerErr, sYielded, sFailures, sDescribes>>
  /\ UNCHANGED <<batchVars, queryVars, pureVars>>

\* The store opens a shard next to the open ones (a new partition), or
\* closes shard parent and opens its successor.
OpenShard(parent) ==
  /\ StoreQuiet
  /\ streamStatus = "ENABLED"
  /\ Len(shStart) < MaxShards
  /\ parent # NIL => shEnd[parent] = NIL
  /\ shEnd' = Append(IF parent = NIL THEN shEnd ELSE [shEnd EXCEPT ![parent] = seqCtr], NIL)
  /\ shStart' = Append(shStart, IF parent = NIL THEN seqCtr ELSE seqCtr + 1)
  /\ shRecs' = Append(shRecs, <<>>)
  /\ seqCtr' = IF parent = NIL THEN seqCtr + 1 ELSE seqCtr + 2
  /\ UNCHANGED <<streamStatus, streamGone, shardsGone, shLimit>>
  /\ UNCHANGED <<passVars, spc, sArn, sIndex, sRecords, sLastRecSeqNum, sLastShardID,
                 sProcessed, sRet, sCallerErr, sYielded, sFailures, sDescribes>>
  /\ UNCHANGED <<batchVars, queryVars, pureVars>>

StreamNext ==
  \/ \E table \in {"err", "none", "stream"} : GetStream(table)
  \/ RecordIterator_HasNext
  \/ getNext_describe
  \/ getNext_shard
  \/ getRecords_fetch
  \/ shardIterator_refresh
  \/ \E dest \in {"nil", "ok", "bad"} : RecordIterator_Next(dest)
  \/ \E sh \in 1..Len(shStart) : WriteRecord(sh)
  \/ \E parent \in 0..Len(shStart) : OpenShard(parent)

StreamSpec == Init /\ [][StreamNext]_vars

\* The same program on a stream whose shards are listed in pages of one shard
\* or all in one reply.
ListInit ==
  /\ BatchIdle
  /\ QueryIdle
  /\ \E limit \in ShardsPerPage..MaxShards : StreamStart(limit)
  /\ ImageIdle("idle", "NEW_AND_OLD_IMAGES")
  /\ ExprIdle
  /\ KeyIdle /\ CacheIdle

ListSpec == ListInit /\ [][StreamNext]_vars

\* A program that iterates over the results of a query or over the records
\* of a stream.
IteratorsNext ==
  \/ StreamIdle /\ IterNext
  \/ QueryIdle /\ StreamNext

IteratorsSpec == Init /\ [][IteratorsNext]_vars

\* Time passes while getRecords runs: the shard iterator tokens issued so far
\* expire (a token is valid for 15 minutes).
ExpireIterators ==
  /\ spc \in {"records", "refresh"}
  /\ ~stExpired
  /\ stExpired' = TRUE /\ itExpired' = TRUE
  /\ UNCHANGED <<storeVars, sWait, pShards, pLastEval, stId, shardIt, spc, sArn, sIndex,
                 sRecords, sLastRecSeqNum, sLastShardID, sProcessed, sRet, sCallerErr,
                 sYielded, sFailures, sDescribes>>
  /\ UNCHANGED <<batchVars, queryVars, pureVars>>

\* HasNext on a stream whose tokens may expire; getNext and getRecords keep
\* running once called.
ExpiryNext == StreamNext \/ ExpireIterators

ExpirySpec ==
  /\ Init /\ [][ExpiryNext]_vars
  /\ WF_vars(getNext_describe) /\ WF_vars(getNext_shard)
  /\ WF_vars(getRecords_fetch) /\ WF_vars(shardIterator_refresh)

\* The table's stream is disabled (UpdateTable with StreamEnabled false):
\* the store closes the open shards.
DisableStream ==
  /\ StoreQuiet
  /\ streamStatus = "ENABLED"
  /\ streamStatus' = "DISABLED"
  /\ shEnd' = [sh \in 1..Len(shEnd) |-> IF shEnd[sh] = NIL THEN seqCtr ELSE shEnd[sh]]
  /\ seqCtr' = seqCtr + 1
  /\ UNCHANGED <<shStart, shRecs, streamGone, shardsGone, shLimit>>
  /\ UNCHANGED <<passVars, spc, sArn, sIndex, sRecords, sLastRecSeqNum, sLastShardID,
                 sProcessed, sRet, sCallerErr, sYielded, sFailures, sDescribes>>
  /\ UNCHANGED <<batchVars, queryVars, pureVars>>

\* A consumer that reads the live stream with WaitNext and Next while the
\* table is written to and, at some point, its stream is disabled.
WaitNextSteps ==
  \/ \E table \in {"err", "none", "stream"} : GetStream(table)
  \/ RecordIterator_WaitNext
  \/ getNext_describe
  \/ getNext_shard
  \/ getRecords_fetch
  \/ shardIterator_refresh
  \/ \E dest \in {"nil", "ok", "bad"} : RecordIterator_Next(dest)
  \/ \E sh \in 1..Len(shStart) : WriteRecord(sh)
  \/ \E parent \in 0..Len(shStart) : OpenShard(parent)
  \/ DisableStream

\* The consumer's loop "for it.WaitNext() { it.Next(&item) }" keeps running,
\* and so do getNext and getRecords once called.
WaitSpec ==
  /\ Init /\ [][WaitNextSteps]_vars
  /\ WF_vars(GetStream("stream"))
  /\ WF_vars(RecordIterator_WaitNext) /\ WF_vars(RecordIterator_Next("ok"))
  /\ WF_vars(getNext_describe) /\ WF_vars(getNext_shard)
  /\ WF_vars(getRecords_fetch) /\ WF_vars(shardIterator_refresh)

\* The table and its stream are deleted: every call on the stream answers
\* ResourceNotFoundException from now on.
DeleteStream ==
  /\ ~streamGone
  /\ streamGone' = TRUE
  /\ UNCHANGED <<shStart, shEnd, shRecs, seqCtr, streamStatus, shardsGone, shLimit>>
  /\ UNCHANGED <<passVars, spc, sArn, sIndex, sRecords, sLastRecSeqNum, sLastShardID,
                 sProcessed, sRet, sCallerErr, sYielded, sFailures, sDescribes>>
  /\ UNCHANGED <<batchVars, queryVars, pureVars>>

\* The store removes a closed shard whose records are past their retention:
\* DescribeStream lists it no more and a call on it answers
\* ResourceNotFoundException.
RemoveShard(sh) ==
  /\ shEnd[sh] # NIL
  /\ sh \notin shardsGone
  /\ shardsGone' = shardsGone \cup {sh}
  /\ UNCHANGED <<shStart, shEnd, shRecs, seqCtr, streamStatus, streamGone, shLimit>>
  /\ UNCHANGED <<passVars, spc, sArn, sIndex, sRecords, sLastRecSeqNum, sLastShardID,
                 sProcessed, sRet, sCallerErr, sYielded, sFailures, sDescribes>>
  /\ UNCHANGED <<batchVars, queryVars, pureVars>>

\* A consumer of a stream written before it is read; the stream, or a closed
\* shard of it, may vanish at any point of a HasNext or WaitNext pass.
VanishNext ==
  \/ GetStream("stream")
  \/ RecordIterator_HasNext
  \/ RecordIterator_WaitNext
  \/ getNext_describe
  \/ getNext_shard
  \/ getRecords_fetch
  \/ shardIterator_refresh
  \/ RecordIterator_Next("ok")
  \/ spc = "none" /\ \E sh \in 1..Len(shStart) : WriteRecord(sh)
  \/ spc = "none" /\ \E parent \in 0..Len(shStart) : OpenShard(parent)
  \/ DeleteStream
  \/ \E sh \in 1..Len(shStart) : RemoveShard(sh)

VanishSpec == Init /\ [][VanishNext]_vars

\* ------------------------------------------------------ record images
\* The item with key k and attribute Value v, as a dbitem.
Image(k, v) == {<<"Key", k>>, <<"Value", v>>}

\* The stream record the store writes for a mutation of the item with key k
\* from old to new (NoItem: no such item), on a stream of view type view.
StreamRecord(view, k, old, new) ==
  LET event == IF old = NoItem THEN "INSERT"
               ELSE IF new = NoItem THEN "REMOVE" ELSE "MODIFY"
  IN [EventName |-> event,
      Keys |-> {<<"Key", k>>},
      OldImage |-> IF view \in {"OLD_IMAGE", "NEW_AND_OLD_IMAGES"} /\ old # NoItem
                     THEN Image(k, old) ELSE NoImage,
      NewImage |-> IF view \in {"NEW_IMAGE", "NEW_AND_OLD_IMAGES"} /\ new # NoItem
                     THEN Image(k, new) ELSE NoImage]

\* getRecords: the record built from one stream record r.
recordOf(r) ==
  [recordType |-> r.EventName,
   dbitem |-> IF r.EventName = "REMOVE" THEN r.OldImage ELSE r.NewImage]

\* dbattribute.ConvertFromMap(dbitem, record): the fields the map names are
\* set, the others keep what the struct held.
ConvertFromMap(dbitem, dest) ==
  [f \in {"Key", "Value"} |->
     IF \E p \in dbitem : p[1] = f THEN (CHOOSE p \in dbitem : p[1] = f)[2]
     ELSE dest[f]]

imageRest == <<batchVars, queryVars, streamVars, exprVars, keyVars, cacheVars>>

\* PutItem of the item (k, v): the store adds or modifies it.
PutItem(k, v) ==
  /\ rpc = "write"
  /\ rItems[k] # v
  /\ rItems' = [rItems EXCEPT ![k] = v]
  /\ rRec' = StreamRecord(rView, k, rItems[k], v)
  /\ rpc' = "select"
  /\ UNCHANGED <<rView, rDbitem, rType, rFetched, imageRest>>

\* DeleteItem of the item with key k.
DeleteItem(k) ==
  /\ rpc = "write"
  /\ rItems[k] # NoItem
  /\ rItems' = [rItems EXCEPT ![k] = NoItem]
  /\ rRec' = StreamRecord(rView, k, rItems[k], NoItem)
  /\ rpc' = "select"
  /\ UNCHANGED <<rView, rDbitem, rType, rFetched, imageRest>>

\* getRecords: the loop body over resp.Records, for the record just written.
getRecords_record ==
  /\ rpc = "select"
  /\ rDbitem' = recordOf(rRec).dbitem
  /\ rType' = recordOf(rRec).recordType
  /\ rpc' = "next"
  /\ UNCHANGED <<rView, rItems, rRec, rFetched, imageRest>>

\* RecordIterator.Next(&fetched) on that record.
Next_convert ==
  /\ rpc = "next"
  /\ rFetched' = ConvertFromMap(rDbitem, rFetched)
  /\ rpc' = "write"
  /\ UNCHANGED <<rView, rItems, rRec, rDbitem, rType, imageRest>>

\* A table created with a stream of any view type, then mutated and read
\* through its stream, one record at a time.
ImageInit ==
  /\ BatchIdle /\ QueryIdle /\ StreamIdle /\ ExprIdle /\ KeyIdle /\ CacheIdle
  /\ \E view \in ViewTypes : ImageIdle("write", view)

ImageNext ==
  \/ \E k \in ImgKeys, v \in ImgValues : PutItem(k, v)
  \/ \E k \in ImgKeys : DeleteItem(k)
  \/ getRecords_record
  \/ Next_convert

ImageSpec == ImageInit /\ [][ImageNext]_vars

\* ----------------------------------------------------- filter expressions
\* A string is the sequence of its characters.
MinOf(S) == CHOOSE x \in S : \A y \in S : x <= y
MaxOf(S) == CHOOSE x \in S : \A y \in S : y <= x
From(s, i) == SubSeq(s, i, Len(s))
IsAt(s, i, sub) ==
  i >= 1 /\ i + Len(sub) - 1 <= Len(s) /\ SubSeq(s, i, i + Len(sub) - 1) = sub
Occurrences(s, sub) == {i \in 1..Len(s) : IsAt(s, i, sub)}

\* strings.Replace(s, old, new, 1) and strings.Replace(s, old, new, -1), for a
\* non-empty old.
strReplace1(s, old, new) ==
  IF Occurrences(s, old) = {} THEN s
  ELSE With(MinOf(Occurrences(s, old)),
            LAMBDA i : SubSeq(s, 1, i - 1) \o new \o From(s, i + Len(old)))
RECURSIVE strReplaceAll(_, _, _)
strReplaceAll(s, old, new) ==
  IF Occurrences(s, old) = {} THEN s
  ELSE With(MinOf(Occurrences(s, old)),
            LAMBDA i : SubSeq(s, 1, i - 1) \o new
                         \o strReplaceAll(From(s, i + Len(old)), old, new))

\* strings.Split(s, sep) and strings.Join(parts, sep).
RECURSIVE strSplit(_, _)
strSplit(s, sep) ==
  IF Occurrences(s, sep) = {} THEN <<s>>
  ELSE With(MinOf(Occurrences(s, sep)),
            LAMBDA i : <<SubSeq(s, 1, i - 1)>> \o strSplit(From(s, i + Len(sep)), sep))
RECURSIVE strJoin(_, _)
strJoin(parts, sep) ==
  IF parts = <<>> THEN <<>>
  ELSE IF Len(parts) = 1 THEN parts[1]
  ELSE parts[1] \o sep \o strJoin(Tail(parts), sep)

\* strings.TrimLeft(s, "("), strings.TrimRight(s, ")"), strings.TrimSpace(s).
RECURSIVE trimLeftP(_)
trimLeftP(s) == IF s # <<>> /\ s[1] = "(" THEN trimLeftP(Tail(s)) ELSE s
RECURSIVE trimRightP(_)
trimRightP(s) ==
  IF s # <<>> /\ s[Len(s)] = ")" THEN trimRightP(SubSeq(s, 1, Len(s) - 1)) ELSE s
RECURSIVE TrimSpace(_)
TrimSpace(s) ==
  IF s # <<>> /\ s[1] = " " THEN TrimSpace(Tail(s))
  ELSE IF s # <<>> /\ s[Len(s)] = " " THEN TrimSpace(SubSeq(s, 1, Len(s) - 1))
  ELSE s

splitCSV(s) ==
  LET v == strSplit(s, <<",">>) IN [i \in 1..Len(v) |-> TrimSpace(v[i])]

\* The words of the expression language.
wAND == <<" ", "A", "N", "D", " ">>
wOR == <<" ", "O", "R", " ">>
wNOT == <<"N", "O", "T", " ">>
wBETWEEN == <<" ", "B", "E", "T", "W", "E", "E", "N", " ">>
wAmp == <<" ", "&", " ">>
wIN == <<" ", "I", "N", " ", "(">>
fSize == <<"s", "i", "z", "e">>
fExists == <<"a", "t", "t", "r", "i", "b", "u", "t", "e", "_", "e", "x", "i", "s", "t", "s">>
fNotExists == <<"a", "t", "t", "r", "i", "b", "u", "t", "e", "_", "n", "o", "t", "_",
                "e", "x", "i", "s", "t", "s">>
fType == <<"a", "t", "t", "r", "i", "b", "u", "t", "e", "_", "t", "y", "p", "e">>
fBeginsWith == <<"b", "e", "g", "i", "n", "s", "_", "w", "i", "t", "h">>
fContains == <<"c", "o", "n", "t", "a", "i", "n", "s">>
Comparators == {<<">", "=">>, <<">">>, <<"=">>, <<"<">>, <<"<", "=">>}

\* reAndRepl.ReplaceAllString(expr, "$1&$3"): the AND between two value
\* placeholders becomes "&"; matches do not overlap.
AndMatches(s) ==
  {i \in 1..Len(s) :
     /\ s[i] = ":"
     /\ \E j \in (i + 2)..Len(s) :
          /\ \A k \in (i + 1)..(j - 1) : s[k] # " "
          /\ IsAt(s, j, wAND \o <<":">>)}
\* A compiler that leaves the AND of BETWEEN as it is written.
reAndRepl_asWritten(s) == s

RECURSIVE reAndRepl(_)
reAndRepl(s) ==
  IF AndMatches(s) = {} THEN s
  ELSE With(MinOf({j \in (MinOf(AndMatches(s)) + 1)..Len(s) : s[j] = " "}),
            LAMBDA j : SubSeq(s, 1, j) \o <<"&", " ", ":">>
                         \o reAndRepl(From(s, j + Len(wAND) + 1)))

\* regexp.FindStringSubmatch of the four expressions: the capturing groups,
\* or <<>> if the string has no match. A group (.+) takes as much as it can.
CompAt(s, i) ==
  {op \in Comparators :
     IsAt(s, i, <<" ">> \o op \o <<" ">>) /\ i >= 2 /\ i + Len(op) + 2 <= Len(s)}
reComp(s) ==
  LET P == {i \in 1..Len(s) : CompAt(s, i) # {}}
  IN IF P = {} THEN <<>>
     ELSE With(MaxOf(P),
               LAMBDA i : <<SubSeq(s, 1, i - 1),
                            From(s, i + 2 + Len(CHOOSE op \in CompAt(s, i) : TRUE))>>)
AmpIn(s) == {j \in 2..Len(s) : IsAt(s, j, wAmp) /\ j + Len(wAmp) <= Len(s)}
reBetween(s) ==
  LET P == {i \in 2..Len(s) :
              IsAt(s, i, wBETWEEN) /\ AmpIn(From(s, i + Len(wBETWEEN))) # {}}
  IN IF P = {} THEN <<>>
     ELSE With(MaxOf(P),
               LAMBDA i :
                 With(From(s, i + Len(wBETWEEN)),
                      LAMBDA rest :
                        <<SubSeq(s, 1, i - 1),
                          SubSeq(rest, 1, MaxOf(AmpIn(rest)) - 1),
                          From(rest, MaxOf(AmpIn(rest)) + Len(wAmp))>>))
CloseIn(s) == {j \in 2..Len(s) : s[j] = ")"}
reIn(s) ==
  LET P == {i \in 2..Len(s) : IsAt(s, i, wIN) /\ CloseIn(From(s, i + Len(wIN))) # {}}
  IN IF P = {} THEN <<>>
     ELSE With(MaxOf(P),
               LAMBDA i :
                 With(From(s, i + Len(wIN)),
                      LAMBDA rest :
                        <<SubSeq(s, 1, i - 1), SubSeq(rest, 1, MaxOf(CloseIn(rest)) - 1)>>))
reFunc(s) ==
  LET P == {i \in 2..Len(s) : s[i] = "(" /\ CloseIn(From(s, i + 1)) # {}}
  IN IF P = {} THEN <<>>
     ELSE With(MaxOf(P),
               LAMBDA i :
                 With(From(s, i + 1),
                      LAMBDA rest :
                        <<SubSeq(s, 1, i - 1), SubSeq(rest, 1, MaxOf(CloseIn(rest)) - 1)>>))

errNoMatch == "no matches found"
Parsed(err, name, vph) == [err |-> err, attrName |-> name, vph |-> vph]

parseCompExpr(expr) ==
  LET m == reComp(expr)
      attrName == trimLeftP(m[1])
      mf == reFunc(attrName)
  IN IF m = <<>> THEN Parsed(errNoMatch, <<>>, <<>>)
     ELSE IF mf # <<>> /\ mf[1] # fSize THEN Parsed("invalid expression", <<>>, <<>>)
     ELSE Parsed("", IF mf # <<>> THEN mf[2] ELSE attrName, <<trimRightP(m[2])>>)

parseBetweenExpr(expr) ==
  LET m == reBetween(expr)
  IN IF m = <<>> THEN Parsed(errNoMatch, <<>>, <<>>)
     ELSE Parsed("", trimLeftP(m[1]), <<m[2], trimRightP(m[3])>>)

parseInExpr(expr) ==
  LET m == reIn(expr)
  IN IF m = <<>> THEN Parsed(errNoMatch, <<>>, <<>>)
     ELSE Parsed("", trimLeftP(m[1]), splitCSV(trimRightP(m[2])))

parseFuncExpr(expr) ==
  LET m == reFunc(expr)
      funcName == trimLeftP(m[1])
      parts == splitCSV(trimRightP(m[2]))
  IN IF m = <<>> THEN Parsed(errNoMatch, <<>>, <<>>)
     ELSE IF funcName \in {fExists, fNotExists} THEN Parsed("", trimRightP(m[2]), <<>>)
     ELSE IF funcName \in {fType, fBeginsWith, fContains}
       THEN IF Len(parts) # 2 THEN Parsed("invalid func expression", <<>>, <<>>)
            ELSE Parsed("", parts[1], Tail(parts))
     ELSE Parsed("unknown func expression", <<>>, <<>>)

\* The loop over the parsers with the function-call parser tried first and
\* the comparison parser last.
exprParser_funcFirst(subExpr) ==
  LET c == parseCompExpr(subExpr)
      b == parseBetweenExpr(subExpr)
      i == parseInExpr(subExpr)
      f == parseFuncExpr(subExpr)
  IN IF f.err # errNoMatch THEN f
     ELSE IF b.err # errNoMatch THEN b
     ELSE IF i.err # errNoMatch THEN i
     ELSE IF c.err # errNoMatch THEN c
     ELSE Parsed("invalid expression", <<>>, <<>>)

\* The loop over exprParser: the first parser that matches or fails.
exprParser(subExpr) ==
  LET c == parseCompExpr(subExpr)
      b == parseBetweenExpr(subExpr)
      i == parseInExpr(subExpr)
      f == parseFuncExpr(subExpr)
  IN IF c.err # errNoMatch THEN c
     ELSE IF b.err # errNoMatch THEN b
     ELSE IF i.err # errNoMatch THEN i
     ELSE IF f.err # errNoMatch THEN f
     ELSE Parsed("invalid expression", <<>>, <<>>)

\* The placeholder of the attribute name n.
namePlaceholder(n) == <<"#">> \o n \o <<"_", "P", "H">>

\* parseExprAttrName(expr, exprAttrName): each name of the dotted path
\* replaces its first occurrence in the expression as rewritten so far.
RECURSIVE replaceNames(_, _)
replaceNames(expr, names) ==
  IF names = <<>> THEN expr
  ELSE replaceNames(strReplace1(expr, names[1], namePlaceholder(names[1])), Tail(names))
parseExprAttrName(expr, exprAttrName) ==
  LET names == strSplit(exprAttrName, <<".">>)
  IN [expr |-> replaceNames(expr, names),
      attrs |-> [i \in 1..Len(names) |->
                   [value |-> names[i], placeholder |-> namePlaceholder(names[i])]]]

\* A value handed to the compiler is a number n > 0, or 0 for a value
\* dbattribute.ConvertTo fails on (a channel, a function).
ConvertTo(v) == [err |-> IF v = 0 THEN "invalid expression value" ELSE "", N |-> v]

\* parseExprAttrValue(placeholder, exprAttrValue). The loop stops at the first
\* placeholder it fails on; overread tells that it indexed exprAttrValue past
\* its end.
AttrValues(err, attrs, overread) == [err |-> err, attrs |-> attrs, overread |-> overread]
valueLoop(placeholder, exprAttrValue) ==
  LET bad == {i \in 1..Len(placeholder) :
                \/ placeholder[i] = <<>>
                \/ placeholder[i][1] # ":"
                \/ i > Len(exprAttrValue)
                \/ ConvertTo(exprAttrValue[i]).err # ""}
      i == MinOf(bad)
  IN IF bad = {}
       THEN AttrValues("", [k \in 1..Len(placeholder) |->
                              [value |-> ConvertTo(exprAttrValue[k]).N,
                               placeholder |-> placeholder[k]]], FALSE)
     ELSE IF placeholder[i] = <<>> THEN AttrValues("panic", <<>>, FALSE)
     ELSE IF placeholder[i][1] # ":"
       THEN AttrValues("invalid value placeholder", <<>>, FALSE)
     ELSE IF i > Len(exprAttrValue) THEN AttrValues("panic", <<>>, TRUE)
     ELSE AttrValues("invalid expression value", <<>>, FALSE)
\* A parseExprAttrValue without its length check.
parseExprAttrValue_unchecked(placeholder, exprAttrValue) ==
  valueLoop(placeholder, exprAttrValue)
parseExprAttrValue(placeholder, exprAttrValue) ==
  IF Len(placeholder) > Len(exprAttrValue)
    THEN AttrValues("inadequate expression values", <<>>, FALSE)
    ELSE valueLoop(placeholder, exprAttrValue)

\* The duplicate check comparing the placeholders of one sub-expression only.
Duplicates_withinTerm(vph, vphs) ==
  {i \in 1..Len(vph) : \E j \in 1..(i - 1) : vph[j] = vph[i]}

\* The placeholders of a list that were seen before, in vphs or earlier in
\* the list.
Duplicates(vph, vphs) ==
  {i \in 1..Len(vph) : vph[i] \in vphs \/ \E j \in 1..(i - 1) : vph[j] = vph[i]}

\* parseExpression: one sub-expression of an OR group. acc holds v, vphs, the
\* values not consumed yet and the rewritten sub-expressions of the group; p
\* is what the parsers made of the sub-expression, n and v what
\* parseExprAttrName and parseExprAttrValue return.
subExprDone(acc, p, n, v) ==
  IF v.err # "" THEN [acc EXCEPT !.err = v.err, !.overread = v.overread]
  ELSE [acc EXCEPT !.vphs = @ \cup {p.vph[i] : i \in 1..Len(p.vph)},
                   !.attrNames = @ \o n.attrs,
                   !.attrValues = @ \o v.attrs,
                   !.values = From(@, Len(v.attrs) + 1),
                   !.orSubExpr = Append(@, n.expr)]
subExprParsed(orExpr, acc, p) ==
  IF p.err # "" THEN [acc EXCEPT !.err = p.err]
  ELSE IF Duplicates(p.vph, acc.vphs) # {}
    THEN [acc EXCEPT !.err = "duplicate placeholder"]
  ELSE With(parseExprAttrName(orExpr, p.attrName),
            LAMBDA n : With(parseExprAttrValue(p.vph, acc.values),
                            LAMBDA v : subExprDone(acc, p, n, v)))
parseSubExpr(orExpr, acc) ==
  IF acc.err # "" THEN acc
  ELSE With(exprParser(strReplaceAll(orExpr, wNOT, <<>>)),
            LAMBDA p : subExprParsed(orExpr, acc, p))

RECURSIVE parseOrGroup(_, _)
parseOrGroup(orSubExpr, acc) ==
  IF orSubExpr = <<>> THEN acc
  ELSE parseOrGroup(Tail(orSubExpr), parseSubExpr(orSubExpr[1], acc))

RECURSIVE parseAndGroups(_, _)
parseAndGroups(andSubExpr, acc) ==
  IF andSubExpr = <<>> \/ acc.err # "" THEN acc
  ELSE With(parseOrGroup(strSplit(andSubExpr[1], wOR), [acc EXCEPT !.orSubExpr = <<>>]),
            LAMBDA g : parseAndGroups(Tail(andSubExpr),
                         [g EXCEPT !.andSubExpr = Append(@, strJoin(g.orSubExpr, wOR))]))

\* parseExpression(expr, values): the exprValue, or the error.
exprValue(v) ==
  [err |-> v.err,
   overread |-> v.overread,
   expr |-> IF v.err # "" THEN <<>>
            ELSE strReplaceAll(strJoin(v.andSubExpr, wAND), <<"&">>, <<"A", "N", "D">>),
   attrNames |-> IF v.err # "" THEN <<>> ELSE v.attrNames,
   attrValues |-> IF v.err # "" THEN <<>> ELSE v.attrValues]
parseExpression(expr, values) ==
  With(parseAndGroups(strSplit(reAndRepl(expr), wAND),
         [err |-> "", overread |-> FALSE, vphs |-> {}, attrNames |-> <<>>,
          attrValues |-> <<>>, values |-> values, orSubExpr |-> <<>>,
          andSubExpr |-> <<>>]),
       LAMBDA v : exprValue(v))

\* The expressions handed to the compiler: terms of the supported shapes,
\* joined by AND or OR. A term is [shape, neg, path]; its value placeholders
\* are :v1, :v2, ... in the order they appear in the expression.
Shapes == {"eq", "le", "gt", "size", "between", "in", "exists", "not_exists", "type",
           "begins", "contains"}
NumValues(shape) ==
  IF shape \in {"exists", "not_exists"} THEN 0
  ELSE IF shape \in {"between", "in"} THEN 2 ELSE 1
valuePlaceholder(n) == <<":", "v">> \o <<<<"0", "1", "2", "3", "4", "5", "6", "7", "8", "9">>[n + 1]>>
Call(f, args) == f \o <<"(">> \o args \o <<")">>
RenderPath(path, ph) ==
  strJoin([i \in 1..Len(path) |-> IF ph THEN namePlaceholder(path[i]) ELSE path[i]],
          <<".">>)
\* A term of the given shape on the path p with the value placeholders v1, v2.
TermBody(shape, p, v1, v2) ==
  IF shape = "eq" THEN p \o <<" ", "=", " ">> \o v1
  ELSE IF shape = "le" THEN p \o <<" ", "<", "=", " ">> \o v1
  ELSE IF shape = "gt" THEN p \o <<" ", ">", " ">> \o v1
  ELSE IF shape = "size" THEN Call(fSize, p) \o <<" ", ">", "=", " ">> \o v1
  ELSE IF shape = "between"
    THEN p \o wBETWEEN \o v1 \o <<" ", "A", "N", "D", " ">> \o v2
  ELSE IF shape = "in" THEN p \o wIN \o v1 \o <<",", " ">> \o v2 \o <<")">>
  ELSE IF shape = "exists" THEN Call(fExists, p)
  ELSE IF shape = "not_exists" THEN Call(fNotExists, p)
  ELSE IF shape = "type" THEN Call(fType, p \o <<",", " ">> \o v1)
  ELSE IF shape = "begins" THEN Call(fBeginsWith, p \o <<",", " ">> \o v1)
  ELSE Call(fContains, p \o <<",", " ">> \o v1)
\* The term t whose first value placeholder is :vk, with its path as written
\* (ph = FALSE) or with every segment replaced by its placeholder (ph = TRUE).
RenderTerm(t, k, ph) ==
  (IF t.neg THEN wNOT ELSE <<>>)
    \o TermBody(t.shape, RenderPath(t.path, ph), valuePlaceholder(k), valuePlaceholder(k + 1))
RECURSIVE RenderExpr(_, _, _, _)
RenderExpr(terms, conns, k, ph) ==
  IF Len(terms) = 1 THEN RenderTerm(terms[1], k, ph)
  ELSE RenderTerm(terms[1], k, ph) \o conns[1]
         \o RenderExpr(Tail(terms), Tail(conns), k + NumValues(terms[1].shape), ph)
RECURSIVE NumPlaceholders(_)
NumPlaceholders(terms) ==
  IF terms = <<>> THEN 0 ELSE NumValues(terms[1].shape) + NumPlaceholders(Tail(terms))

\* The caller holds the expression of these terms and these values.
ExprInput(terms, conns, values) ==
  /\ epc = "input" /\ eTerms = terms /\ eConns = conns /\ eValues = values
  /\ eExpr = RenderExpr(terms, conns, 1, FALSE)
  /\ eOut = NoOutput

\* Filter(expr, values...): the call of parseExpression.
Filter_parseExpression ==
  /\ epc = "input"
  /\ eOut' = parseExpression(eExpr, eValues)
  /\ epc' = "done"
  /\ UNCHANGED <<eTerms, eConns, eExpr, eValues>>
  /\ UNCHANGED <<batchVars, queryVars, streamVars, imageVars, keyVars, cacheVars>>

\* The names of path segments: plain ones and ones that are part of a
\* keyword, of a function name, of a placeholder or of one another.
MaxPath == 2
Segments == {<<"a">>, <<"a", "b">>, <<"e">>, <<"H">>}
Paths == UNION {[1..n -> Segments] : n \in 1..MaxPath}

\* One term of any shape on any path, with the values it needs.
NameInit ==
  /\ BatchIdle /\ QueryIdle /\ StreamIdle /\ ImageIdle("idle", "NEW_AND_OLD_IMAGES")
  /\ KeyIdle /\ CacheIdle
  /\ \E shape \in Shapes, neg \in BOOLEAN, path \in Paths :
       ExprInput(<<[shape |-> shape, neg |-> neg, path |-> path]>>, <<>>,
                 [i \in 1..NumValues(shape) |-> i])

NameSpec == NameInit /\ [][Filter_parseExpression]_vars

\* Expressions of up to MaxTerms terms with up to MaxValues values, each a
\* number or a value that does not convert.
MaxTerms == 2
MaxValues == 3
ValueShapes == {"eq", "size", "between", "in", "exists", "begins"}
ValueTerms == {[shape |-> shape, neg |-> FALSE, path |-> <<<<"k">>, <<"q">>>>] :
                 shape \in ValueShapes}
ValueInit ==
  /\ BatchIdle /\ QueryIdle /\ StreamIdle /\ ImageIdle("idle", "NEW_AND_OLD_IMAGES")
  /\ KeyIdle /\ CacheIdle
  /\ \E n \in 1..MaxTerms, m \in 0..MaxValues :
       \E terms \in [1..n -> ValueTerms], conns \in [1..(n - 1) -> {wAND, wOR}],
          conv \in [1..m -> BOOLEAN] :
         ExprInput(terms, conns, [i \in 1..m |-> IF conv[i] THEN i ELSE 0])

ValueSpec == ValueInit /\ [][Filter_parseExpression]_vars

\* Expressions whose terms name their value placeholders freely, so that a
\* placeholder can occur twice: a term is [shape, neg, path, phs], phs the
\* numbers of its placeholders.  At most one of the values does not convert.
PlaceholderNumbers == {1, 2}
RepeatShapes == {"eq", "between", "in", "begins"}
RepeatTerms == {[shape |-> shape, neg |-> FALSE, path |-> <<<<"k">>, <<"q">>>>, phs |-> phs] :
                  shape \in RepeatShapes, phs \in UNION {[1..n -> PlaceholderNumbers] : n \in 1..2}}
RenderNamed(t) ==
  TermBody(t.shape, RenderPath(t.path, FALSE), valuePlaceholder(t.phs[1]),
           valuePlaceholder(t.phs[Len(t.phs)]))
RECURSIVE RenderNamedExpr(_, _)
RenderNamedExpr(terms, conns) ==
  IF Len(terms) = 1 THEN RenderNamed(terms[1])
  ELSE RenderNamed(terms[1]) \o conns[1] \o RenderNamedExpr(Tail(terms), Tail(conns))
RepeatInit ==
  /\ BatchIdle /\ QueryIdle /\ StreamIdle /\ ImageIdle("idle", "NEW_AND_OLD_IMAGES")
  /\ KeyIdle /\ CacheIdle
  /\ \E n \in 1..MaxTerms, m \in 0..MaxValues :
       \E terms \in [1..n -> RepeatTerms], conns \in [1..(n - 1) -> {wAND, wOR}],
          bad \in 0..m :
         /\ \A i \in 1..n : Len(terms[i].phs) = NumValues(terms[i].shape)
         /\ epc = "input" /\ eTerms = terms /\ eConns = conns
         /\ eValues = [i \in 1..m |-> IF i = bad THEN 0 ELSE i]
         /\ eExpr = RenderNamedExpr(terms, conns)
         /\ eOut = NoOutput

RepeatSpec == RepeatInit /\ [][Filter_parseExpression]_vars

\* Terms of no supported shape: a bare path, an operator the language does
\* not have, a function other than size in a comparison, an unknown function.
OddShapes == {"bare", "like", "max", "unknown"}
fMax == <<"m", "a", "x">>
OddBody(shape, p, v1) ==
  IF shape = "bare" THEN p
  ELSE IF shape = "like" THEN p \o <<" ", "L", "I", "K", "E", " ">> \o v1
  ELSE IF shape = "max" THEN Call(fMax, p) \o <<" ", ">", " ">> \o v1
  ELSE Call(fMax, p)

\* One term, of a supported shape or not, on a path of one or two plain
\* segments, with two values.
ShapeInit ==
  /\ BatchIdle /\ QueryIdle /\ StreamIdle /\ ImageIdle("idle", "NEW_AND_OLD_IMAGES")
  /\ KeyIdle /\ CacheIdle
  /\ \E shape \in Shapes \cup OddShapes, neg \in BOOLEAN,
        path \in {<<<<"k">>>>, <<<<"k">>, <<"q">>>>, <<<<"q">>, <<"k">>>>} :
       /\ epc = "input" /\ eConns = <<>> /\ eValues = <<1, 2>>
       /\ eTerms = <<[shape |-> shape, neg |-> neg, path |-> path]>>
       /\ eExpr = (IF shape \in Shapes
                     THEN RenderTerm(eTerms[1], 1, FALSE)
                     ELSE (IF neg THEN wNOT ELSE <<>>)
                            \o OddBody(shape, RenderPath(path, FALSE), valuePlaceholder(1)))
       /\ eOut = NoOutput

ShapeSpec == ShapeInit /\ [][Filter_parseExpression]_vars

\* ------------------------------------------------------------- getKey
\* The attributes of the items, in the order sort.Strings gives them.
Attrs == <<"Author", "Genre", "Title">>
AttrSet == {Attrs[i] : i \in 1..Len(Attrs)}
\* What an attribute of an item holds.  A struct field holds the zero value
\* of its type ("zero") or another value ("set"), or it is a byte slice with
\* bytes in it ("bytes").  An entry of a map[string]interface{} is absent
\* ("absent"), nil ("nil"), the zero value of its dynamic type such as ""
\* ("zero"), or another value ("set").
StructItems == {[kind |-> "struct", val |-> v] : v \in [AttrSet -> {"zero", "set", "bytes"}]}
MapItems == {[kind |-> "map", val |-> v] : v \in [AttrSet -> {"absent", "nil", "zero", "set"}]}

KeyErr(e) == [err |-> e, value |-> {}, indexName |-> "", indexType |-> ""]

\* isZeroValue(val): val.Interface() == reflect.Zero(val.Type()).Interface().
\* For a struct field both sides have the field's type, and comparing two
\* byte slices panics.  For an entry of a map val.Type() is interface{},
\* whose zero value is nil: only a nil entry is equal to it.
isZeroValue(item, a) ==
  IF item.kind = "map" THEN (IF item.val[a] = "nil" THEN "true" ELSE "false")
  ELSE IF item.val[a] = "bytes" THEN "panic"
  ELSE IF item.val[a] = "zero" THEN "true" ELSE "false"

\* sc.GetSchema of a map: every key of the map is a key attribute, in sorted
\* order, and there is no secondary index.
GetSchema(item) ==
  [NoSchema EXCEPT !.Key = SelectSeq(Attrs, LAMBDA a : item.val[a] # "absent")]

\* The schemas of the struct types: tBook, whose two global indexes come in
\* the order GetSchema's range over a map gave them; a type with a local and
\* a hash-only global index; a type with a hash-only primary key.
Idx(name, key) == [Name |-> name, Key |-> key]
StructSchemas ==
  {[NoSchema EXCEPT !.Key = <<"Title", "Author">>, !.GlobalSecondaryIndexes = g] :
     g \in {<<Idx("AuthorIndex", <<"Author", "Title">>), Idx("GenreIndex", <<"Genre", "Title">>)>>,
            <<Idx("GenreIndex", <<"Genre", "Title">>), Idx("AuthorIndex", <<"Author", "Title">>)>>}}
  \cup {[Key |-> <<"Title", "Author">>,
         LocalSecondaryIndexes |-> <<Idx("ByGenre", <<"Title", "Genre">>)>>,
         GlobalSecondaryIndexes |-> <<Idx("GenreIndex", <<"Genre">>)>>],
        [NoSchema EXCEPT !.Key = <<"Title">>,
                         !.GlobalSecondaryIndexes = <<Idx("AuthorIndex", <<"Author">>)>>]}

\* getPrimaryKey: the loop over schema.Key, value being key.value so far.
RECURSIVE primaryLoop(_, _, _)
primaryLoop(item, keys, value) ==
  IF keys = <<>>
    THEN IF value = {} THEN KeyErr("no valid key") ELSE [NoKey EXCEPT !.value = value]
    ELSE IF isZeroValue(item, Head(keys)) = "panic" THEN KeyErr("panic")
    ELSE IF isZeroValue(item, Head(keys)) = "true" THEN KeyErr("incomplete primary key")
    ELSE primaryLoop(item, Tail(keys), value \cup {<<Head(keys), item.val[Head(keys)]>>})

getPrimaryKey(item, schema) == primaryLoop(item, schema.Key, {})

\* getSecondaryKey: the loop over the keys of one index; a zero attribute
\* empties key.value and goes on with the next index.
RECURSIVE indexLoop(_, _, _)
indexLoop(item, keys, value) ==
  IF keys = <<>> THEN [zero |-> "false", value |-> value]
  ELSE IF isZeroValue(item, Head(keys)) # "false"
    THEN [zero |-> isZeroValue(item, Head(keys)), value |-> {}]
    ELSE indexLoop(item, Tail(keys), value \cup {<<Head(keys), item.val[Head(keys)]>>})

\* getSecondaryKey: the "Indices:" loop from the index at position i.
RECURSIVE Indices(_, _, _, _, _)
Indices(item, secondaryIdxs, i, globalIdxMarker, value) ==
  IF i > Len(secondaryIdxs)
    THEN KeyErr("no valid key")
    ELSE With(indexLoop(item, secondaryIdxs[i].Key, value),
           LAMBDA r :
             IF r.zero = "panic" THEN KeyErr("panic")
             ELSE IF r.zero = "true"
               THEN Indices(item, secondaryIdxs, i + 1, globalIdxMarker, r.value)
             ELSE IF r.value = {} THEN KeyErr("no valid key")
             ELSE [err |-> "", value |-> r.value, indexName |-> secondaryIdxs[i].Name,
                   indexType |-> IF i > globalIdxMarker THEN "GLOBAL" ELSE "LOCAL"])

getSecondaryKey(item, schema) ==
  Indices(item, schema.LocalSecondaryIndexes \o schema.GlobalSecondaryIndexes, 1,
          Len(schema.LocalSecondaryIndexes), {})

getKey(item, schema) ==
  With(getPrimaryKey(item, schema),
       LAMBDA k : IF k.err \in {"", "panic"} THEN k ELSE getSecondaryKey(item, schema))

\* The caller holds an item of a struct type or a map.
KeyInit ==
  /\ BatchIdle /\ QueryIdle /\ StreamIdle /\ ImageIdle("idle", "NEW_AND_OLD_IMAGES")
  /\ ExprIdle /\ CacheIdle
  /\ kpc = "input" /\ kOut = NoKey
  /\ \/ kItem \in StructItems /\ kSchema \in StructSchemas
     \/ kItem \in MapItems /\ kSchema = GetSchema(kItem)

\* The call getKey(item).
getKey_call ==
  /\ kpc = "input"
  /\ kOut' = getKey(kItem, kSchema)
  /\ kpc' = "done"
  /\ UNCHANGED <<kItem, kSchema>>
  /\ UNCHANGED <<batchVars, queryVars, streamVars, imageVars, exprVars, cacheVars>>

KeySpec == KeyInit /\ [][getKey_call]_vars

\* ------------------------------------------------------ schema register
\* The Tables GetSchema can build for a struct type: the secondary indexes
\* come in the order its range over the map of index names gives them.
SchemasOf(t) ==
  IF t = "tBook" THEN {s \in StructSchemas : Len(s.GlobalSecondaryIndexes) = 2}
  ELSE {s \in StructSchemas : s.Key = <<"Title">>}

\* GetSchema(item), item of struct type t, called by goroutine g: the lookup
\* under the read lock.
GetSchema_lookup(g, t) ==
  /\ cpc[g] = "idle"
  /\ cType' = [cType EXCEPT ![g] = t]
  /\ IF schemas[t] # NoTable
       THEN /\ cS' = [cS EXCEPT ![g] = schemas[t]]
            /\ cpc' = [cpc EXCEPT ![g] = "return"]
       ELSE /\ cS' = [cS EXCEPT ![g] = NoTable]
            /\ cpc' = [cpc EXCEPT ![g] = "build"]
  /\ UNCHANGED <<schemas, cAllocs, cWrites, cGot>>
  /\ UNCHANGED <<batchVars, queryVars, streamVars, imageVars, exprVars, keyVars>>

\* GetSchema after a miss: the schema is built from the field tags into a new
\* Table and stored under the write lock.
GetSchema_register(g) ==
  /\ cpc[g] = "build"
  /\ \E table \in SchemasOf(cType[g]) :
       LET s == [ptr |-> cAllocs + 1, table |-> table]
       IN /\ cS' = [cS EXCEPT ![g] = s]
          /\ schemas' = [schemas EXCEPT ![cType[g]] = s]
  /\ cAllocs' = cAllocs + 1
  /\ cWrites' = [cWrites EXCEPT ![cType[g]] = @ + 1]
  /\ cpc' = [cpc EXCEPT ![g] = "return"]
  /\ UNCHANGED <<cType, cGot>>
  /\ UNCHANGED <<batchVars, queryVars, streamVars, imageVars, exprVars, keyVars>>

\* return s
GetSchema_return(g) ==
  /\ cpc[g] = "return"
  /\ cGot' = [cGot EXCEPT ![cType[g]] = @ \cup {cS[g]}]
  /\ cpc' = [cpc EXCEPT ![g] = "idle"]
  /\ cType' = [cType EXCEPT ![g] = ""]
  /\ cS' = [cS EXCEPT ![g] = NoTable]
  /\ UNCHANGED <<schemas, cAllocs, cWrites>>
  /\ UNCHANGED <<batchVars, queryVars, streamVars, imageVars, exprVars, keyVars>>

\* Goroutines calling GetSchema with items of the struct types, in any
\* interleaving.
CacheNext ==
  \/ \E g \in Goroutines, t \in Types : GetSchema_lookup(g, t)
  \/ \E g \in Goroutines : GetSchema_register(g)
  \/ \E g \in Goroutines : GetSchema_return(g)

CacheSpec == Init /\ [][CacheNext]_vars

\* ------------------------------------------------------------- claims
Returned == pc = "done" /\ runResult \in {"nil", "BatchError"}
CallSize == SumLen(citems, Tables)
Registered(t, k) == itemIdxs[t][k] # <<>>

\* C1: Run terminates even when the transport returns every entry of every
\* batch call as unprocessed.
C1_RunTerminates == (pc = "run") ~> (pc = "done")

\* C2: every network batch call carries at most batchSize entries over all
\* tables, carried-over entries included.
C2_CallWithinBatchSize == pc = "call" => CallSize <= batchSizeOf(bKind)

\* C3: a key shared by several input indices of a table gets exactly one
\* network entry, and all the indices sharing it get the same outcome.
C3_OneEntryPerKey ==
  \A t \in Tables : \A k \in Keys :
    /\ sentNew[t][k] <= 1
    /\ Returned /\ Registered(t, k) => sentNew[t][k] = 1
    /\ \A a, b \in 1..Len(itemIdxs[t][k]) :
         /\ errs[t][itemIdxs[t][k][a]] = errs[t][itemIdxs[t][k][b]]
         /\ <<t, itemIdxs[t][k][a]>> \in decoded <=> <<t, itemIdxs[t][k][b]>> \in decoded
    /\ Len(itemIdxs[t][k]) = Cardinality({i \in 1..Len(bItems[t]) : bItems[t][i] = k})

C3_Witness ==
  /\ Returned /\ bKind = "get"
  /\ \E t \in Tables : \E k \in Keys :
       /\ Len(itemIdxs[t][k]) >= 2 /\ sentNew[t][k] = 1
       /\ \A a \in 1..Len(itemIdxs[t][k]) : errs[t][itemIdxs[t][k][a]] = "ErrNoSuchItem"

\* Every registered key was sent once and nothing is pending any more.
EverythingSent ==
  /\ unpCount = 0 /\ CallSize = 0
  /\ \A t \in Tables : Len(unproc[t]) = 0
  /\ \A t \in Tables : \A k \in Keys : Registered(t, k) =>
       /\ sentNew[t][k] = 1
       /\ bKind # "get" => unprocIdxs[t][k] = <<>>
       /\ bKind = "get" =>
            \/ unprocIdxs[t][k] = <<>> /\ <<t, k>> \in returned
            \/ unprocIdxs[t][k] # <<>> /\ <<t, k>> \notin returned

\* C4: with a transport that goes on processing what it is sent, Run returns,
\* and it returns only when every resolvable key has been sent and processed.
C4_RunSendsEverything ==
  /\ [](Returned => EverythingSent)
  /\ (pc = "run") ~> Returned

C4_Witness ==
  /\ Returned /\ EverythingSent
  /\ Cardinality({tk \in Tables \X Keys : Registered(tk[1], tk[2])}) > batchSizeOf(bKind)

\* C5: after BatchGet.Run returns without a transport error, an index has
\* ErrNoSuchItem exactly when the store never returned its key.
C5_NoSuchItemIffNeverReturned ==
  Returned /\ bKind = "get" =>
    \A t \in Tables : \A i \in 1..Len(bItems[t]) :
      bItems[t][i] # 0 =>
        (errs[t][i] = "ErrNoSuchItem" <=> <<t, bItems[t][i]>> \notin returned)

C5_Witness ==
  /\ Returned /\ bKind = "get"
  /\ \E t \in Tables : \E i, j \in 1..Len(bItems[t]) :
       /\ i # j /\ bItems[t][i] = bItems[t][j] /\ bItems[t][i] # 0
       /\ errs[t][i] = "ErrNoSuchItem" /\ errs[t][j] = "ErrNoSuchItem"
       /\ \E l \in 1..Len(bItems[t]) : <<t, bItems[t][l]>> \in returned

\* Every item of every result page of the store, in page order.
RECURSIVE AllItems(_, _)
AllItems(pages, p) ==
  IF p > Len(pages) THEN <<>>
  ELSE [i \in 1..pages[p] |-> <<p, i>>] \o AllItems(pages, p + 1)

\* The caller iterated an unlimited query or scan until HasNext returned
\* false, and no page fetch failed.
Drained ==
  /\ qpc = "iter" /\ itOp # "" /\ itLimit = -1
  /\ lastHasNext = "false" /\ ~fetchFailed

\* C6: iterating with HasNext/Next until HasNext returns false yields every
\* item of every result page exactly once and in page order, for queries and
\* for scans: the iterator fetches for as long as the store returns a
\* continuation key.
C6_DrainYieldsEveryPage == Drained => yielded = AllItems(storePages, 1)

\* C7: with an explicit limit L the iterator yields at most L items in total
\* over all pages, and issues no continuation fetch once L items were
\* yielded.
C7_LimitBoundsYield ==
  (qpc = "iter" /\ itLimit >= 1) => (Len(yielded) <= itLimit /\ ~lateFetch)

\* What Run, HasNext and Next hand the caller when nothing failed in the
\* transport.
OrdinaryResults == {"", "no more items to return", "invalid item"}

\* C8: when a page fetch fails in the transport (the first page in Run or a
\* continuation page in HasNext), the call hands the caller an error: the
\* failure is never presented as an ordinary end of results.
C8_FetchFailureSurfaces ==
  [][(~fetchFailed /\ fetchFailed') => callerErr' \notin OrdinaryResults]_vars

ConstructionErrs == {"empty table name", "limit must be greater than zero"}

\* C9: once a Query holds a construction error, every later chained call
\* keeps that error and leaves the filter state unchanged, and Run issues no
\* transport request and hands the stored error to the caller.
C9_ConstructionErrorSticks ==
  [][(qpc = "build" /\ qErr \in ConstructionErrs) =>
       /\ qErr' = qErr
       /\ FilterState' = FilterState
       /\ (qpc' = "iter" => (~requested' /\ callerErr' = qErr))]_vars


\* Every record of the stream, in the order the mutations were made.
RECURSIVE SortSeqs(_)
SortSeqs(S) ==
  IF S = {} THEN <<>>
  ELSE LET m == CHOOSE x \in S : \A y \in S : x <= y IN <<m>> \o SortSeqs(S \ {m})

AllRecords == SortSeqs(UNION {{shRecs[sh][i] : i \in 1..Len(shRecs[sh])} : sh \in 1..Len(shRecs)})

\* A HasNext pass over the stream ends with false.
PassEndsFalse == spc # "idle" /\ spc' = "idle" /\ sRet' = "false"

\* C10: draining a stream with repeated HasNext/Next yields each record
\* present in the stream exactly once (none skipped, none repeated across
\* HasNext passes) and in the order of the mutations: the records yielded
\* are always in mutation order without repeats, and when HasNext returns
\* false every record of the stream has been yielded. Stated for the runs in
\* which no transport call failed.
C10_DrainYieldsStreamInOrder ==
  /\ [](sFailures = 0 => \A i, j \in 1..Len(sYielded) : i < j => sYielded[i] < sYielded[j])
  /\ [][(PassEndsFalse /\ sFailures' = 0) => sYielded' = AllRecords']_vars

\* C11: HasNext returns true at once, without any transport call, when
\* buffered records remain; otherwise it makes exactly one pass, with one
\* stream description and one drain of the listed shards, and returns
\* whether the pass buffered at least one record; it never starts a further
\* pass. Stated for the runs in which no transport call failed.
C11_HasNextOnePass ==
  /\ [][(spc = "idle" /\ spc' # "idle") => sIndex >= Len(sRecords)]_vars
  /\ []((~sWait /\ sFailures = 0) => sDescribes <= 1)
  /\ []((~sWait /\ sFailures = 0 /\ spc = "idle" /\ sArn # "" /\ sRet # "none")
          => ((sRet = "true") <=> (Len(sRecords) > 0)))

\* C12: HasNext always returns after a bounded number of transport round
\* trips, whatever the transport answers (empty stream, empty pages,
\* repeated fetch errors, expired iterators).
C12_HasNextReturns ==
  (~sWait /\ spc \in {"describe", "shard", "records", "refresh"})
    ~> (spc \in {"idle", "panic"})

RecordSet == UNION {{shRecs[sh][i] : i \in 1..Len(shRecs[sh])} : sh \in 1..Len(shRecs)}
YieldedSet == {sYielded[i] : i \in 1..Len(sYielded)}

\* The latest HasNext / WaitNext of a consumer of the stream returned false,
\* and no transport call failed.
ReturnedFalse == spc = "idle" /\ sArn # "" /\ sRet = "false" /\ sFailures = 0

\* C13: once the stream has been disabled, WaitNext returns false only when
\* every record written to every shard before the disable has been yielded.
\* Stated for the runs in which no transport call failed.
C13_FalseAfterDisableMeansDrained ==
  (ReturnedFalse /\ streamStatus = "DISABLED") => RecordSet \subseteq YieldedSet

\* The sequence numbers the store can hand out.
SeqNums == SeqBase..(SeqBase + MaxRecords + 2 * MaxShards)

\* C14: while the stream stays enabled WaitNext never returns false, and a
\* record that is written is eventually delivered. Stated for the runs in
\* which no transport call failed.
C14_WaitNextDelivers ==
  /\ [](ReturnedFalse => streamStatus = "DISABLED")
  /\ \A n \in SeqNums :
       (n \in RecordSet) ~>
         (n \in YieldedSet \/ streamStatus = "DISABLED" \/ sFailures > 0 \/ sArn = "")

\* C15: within one WaitNext session the sequence numbers of successive
\* non-duplicate records delivered to the caller never decrease under the
\* order "shorter first, equal length lexicographic", for any layout of
\* shards: a record delivered for the first time is not less than any
\* record delivered before it.
C15_DeliveredNeverDecrease ==
  \A i, j \in 1..Len(sYielded) :
    (i < j /\ \A k \in 1..(j - 1) : sYielded[k] # sYielded[j])
      => lessEq(sYielded[i], sYielded[j])

\* C17: a transport failure other than resource-not-found during stream
\* description, shard-iterator creation or record fetch never crashes the
\* consumer: HasNext, WaitNext and Next return normally or surface an error.
C17_NeverCrashes == spc # "panic"

\* A step of getNext or getRecords that calls a stream or a shard that is gone.
CallOnVanished ==
  \/ streamGone /\ getNext_describe
  \/ /\ spc \in {"shard", "records", "refresh"}
     /\ Gone(Head(pShards))
     /\ getNext_shard \/ getRecords_fetch \/ shardIterator_refresh
\* C18: if the stream or one of its shards vanishes at any point of a pass,
\* HasNext and WaitNext return false and raise nothing: the step of getNext or
\* getRecords that calls DescribeStream on a deleted stream, or
\* GetShardIterator or GetRecords on a shard that is gone, ends the pass with
\* the result false.
C18_VanishedEndsPass ==
  [][CallOnVanished => (spc' = "idle" /\ sRet' = "false")]_vars
\* A pass that had buffered a record ended with false on a shard that is gone
\* while the stream is still there.
C18_Witness ==
  /\ spc = "idle" /\ sRet = "false" /\ sArn # ""
  /\ ~streamGone /\ shardsGone # {} /\ pShards # <<>> /\ Head(pShards) \in shardsGone
  /\ Len(sRecords) > 0 /\ sFailures = 0

\* C16: the image a stream record exposes follows the selection rule for
\* every stream view type: a deleted record exposes the pre-deletion image,
\* every other record exposes the new image, and on a view that carries no
\* such image the record still exposes the item's key attributes.
C16_RecordImage ==
  rpc = "next" =>
    /\ (rType = "REMOVE" /\ rRec.OldImage # NoImage) => rDbitem = rRec.OldImage
    /\ (rType # "REMOVE" /\ rRec.NewImage # NoImage) => rDbitem = rRec.NewImage
    /\ rRec.Keys \subseteq rDbitem

\* C19: for every valid term and every attribute path the rewritten
\* expression is the input with each path segment replaced in place by its own
\* name placeholder and nothing else changed, and the returned
\* placeholder-to-name pairs recover the path, segment by segment.
C19_NamesRoundTrip ==
  (epc = "done" /\ Len(eTerms) = 1) =>
    LET path == eTerms[1].path
    IN /\ eOut.err = ""
       /\ eOut.expr = RenderExpr(eTerms, eConns, 1, TRUE)
       /\ Len(eOut.attrNames) = Len(path)
       /\ \A i \in 1..Len(path) :
            eOut.attrNames[i] = [value |-> path[i], placeholder |-> namePlaceholder(path[i])]

\* Fewer values than value placeholders.
Shortfall == Len(eValues) < NumPlaceholders(eTerms)
ValueCountError == "inadequate expression values"
\* C20: for an expression with N value placeholders and M < N supplied
\* values, compile always fails with the value-count error and never reads
\* past the end of the supplied values, wherever in the expression the
\* shortfall occurs.
C20_ShortfallIsValueCountError ==
  (epc = "done" /\ Shortfall) => (eOut.err = ValueCountError /\ ~eOut.overread)
AllConvert == \A i \in 1..Len(eValues) : ConvertTo(eValues[i]).err = ""
\* C20, amended: with fewer values than placeholders compile always fails and
\* never reads past the end of the supplied values; it fails with the
\* value-count error if every supplied value converts (a value that does not
\* convert, consumed by a sub-expression before the one that falls short,
\* fails first, with the conversion error).
C20_ShortfallFails ==
  (epc = "done" /\ Shortfall) =>
    /\ ~eOut.overread
    /\ eOut.err \in {ValueCountError, "invalid expression value"}
    /\ AllConvert => eOut.err = ValueCountError
\* The first sub-expression had its values, the second one fell short.
C20_Witness ==
  /\ epc = "done" /\ Shortfall /\ AllConvert
  /\ Len(eTerms) = 2 /\ NumValues(eTerms[1].shape) > 0
  /\ NumValues(eTerms[1].shape) <= Len(eValues)
  /\ eOut.err = ValueCountError

\* Run on a query that holds no construction error: the step that builds and
\* issues the request.
RunExecutes == qpc = "build" /\ qpc' = "iter" /\ qErr = ""

CallEntries == {te \in Tables \X (1..MaxItems) :
                  \E j \in 1..Len(citems[te[1]]) : citems[te[1]][j] = te[2]}
\* The items whose primary key getPrimaryKey could not resolve.
Unresolved == {ti \in Tables \X (1..MaxItems) :
                 ti[2] <= Len(bItems[ti[1]]) /\ bItems[ti[1]][ti[2]] = 0}

\* C22: an item whose primary key cannot be resolved has an error recorded at
\* its (table, index) and is in no network call, and it does not abort its
\* siblings: while the store fails on no call it accepts, Run returns the
\* per-index report, with every resolvable key of the batch sent.
C22_KeyErrorSparesSiblings ==
  /\ \A ti \in Unresolved : errs[ti[1]][ti[2]] = "ErrKey"
  /\ pc = "call" => CallEntries \cap Unresolved = {}
  /\ (pc = "done" /\ runResult # "builderErr") =>
       /\ runResult \in {"nil", "BatchError"}
       /\ \A t \in Tables : \A k \in Keys : Registered(t, k) => sentNew[t][k] = 1

\* The input indices of table t that hold the same primary key as index e.
SameKey(t, e) == {i \in 1..Len(bItems[t]) : bItems[t][i] = bItems[t][e]}

\* C23: when a BatchPut slice holds several items with the same primary key,
\* the payload sent to the store for that key is that of the last occurrence
\* in the slice; the payload of an earlier occurrence is in no call.
C23_LastOccurrenceSent ==
  (bKind = "put" /\ pc = "call") =>
    \A t \in Tables : \A j \in 1..Len(citems[t]) :
      \A i \in SameKey(t, citems[t][j]) : i <= citems[t][j]

C23_Witness ==
  /\ bKind = "put" /\ pc = "call"
  /\ \E t \in Tables : \E j \in 1..Len(citems[t]) :
       /\ Cardinality(SameKey(t, citems[t][j])) >= 2
       /\ \A i \in SameKey(t, citems[t][j]) : i <= citems[t][j]
       /\ sentNew[t][bItems[t][citems[t][j]]] = 1
       /\ \E k \in Keys : Registered(t, k) /\ k # bItems[t][citems[t][j]]

TableTwice == "only one operation per table"
\* A chained call on a batch without an error, for a table it already holds.
RegistersAgain ==
  /\ bErr = ""
  /\ \E t \in bTables : \E items \in ItemSlices(MaxItems) : \E ok \in BOOLEAN :
       Chain(t, items, ok)
\* What a chained call can change.
registry == <<bErr, bTables, bItems, unproc, unprocDom, unprocIdxs, itemIdxs,
              unpCount, errs>>

\* C24: registering a second slice for a table the batch already holds
\* records an error; every later chained call changes nothing, and Run
\* returns that error without a network call for any table.
C24_OneRegistrationPerTable ==
  /\ [][RegistersAgain => bErr' = TableTwice]_vars
  /\ [][bErr = TableTwice => UNCHANGED registry]_vars
  /\ [](bErr = TableTwice =>
          /\ pc \in {"build", "done"}
          /\ pc = "done" => runResult = "builderErr"
          /\ \A t \in Tables : \A k \in Keys : sentNew[t][k] = 0)

C24_Witness ==
  /\ bErr = TableTwice /\ pc = "done" /\ runResult = "builderErr"
  /\ bTables = {"TableA"} /\ Len(bItems["TableA"]) = 2 /\ unpCount = 2
  /\ unproc["TableA"] = <<1, 2>>

\* The placeholder numbers of the first n terms of the expression, in order.
RECURSIVE PhsOf(_, _)
PhsOf(terms, n) == IF n = 0 THEN <<>> ELSE PhsOf(terms, n - 1) \o terms[n].phs
Repeats(phs) == \E i, j \in 1..Len(phs) : i < j /\ phs[i] = phs[j]
\* The first term with a placeholder that occurred before, and whether the
\* terms before it get values that are enough and convert.
RepeatTerm == MinOf({n \in 1..Len(eTerms) : Repeats(PhsOf(eTerms, n))})
EarlierCompile ==
  LET need == Len(PhsOf(eTerms, RepeatTerm - 1))
  IN Len(eValues) >= need /\ \A i \in 1..need : ConvertTo(eValues[i]).err = ""
NoResult == eOut.expr = <<>> /\ eOut.attrNames = <<>> /\ eOut.attrValues = <<>>
DuplicateError == "duplicate placeholder"

\* C25: compile fails with the duplicate-placeholder error whenever a value
\* placeholder occurs more than once in the expression, inside one term or in
\* different terms joined by AND or OR, and returns no partial result.
C25_RepeatIsDuplicateError ==
  (epc = "done" /\ Repeats(PhsOf(eTerms, Len(eTerms)))) =>
    (eOut.err = DuplicateError /\ NoResult /\ ~eOut.overread)

\* C25, amended: with a repeated value placeholder compile always fails and
\* returns no partial result; the error is the duplicate-placeholder error
\* exactly when the terms before the repeated occurrence get values that are
\* enough and convert, and the error of those values otherwise.
C25_RepeatFails ==
  (epc = "done" /\ Repeats(PhsOf(eTerms, Len(eTerms)))) =>
    /\ NoResult /\ ~eOut.overread
    /\ eOut.err \in {DuplicateError, ValueCountError, "invalid expression value"}
    /\ EarlierCompile <=> eOut.err = DuplicateError

C25_Witness ==
  /\ epc = "done" /\ Len(eTerms) = 2 /\ eConns = <<wOR>>
  /\ ~Repeats(eTerms[1].phs) /\ ~Repeats(eTerms[2].phs)
  /\ eTerms[1].shape = "between" /\ eTerms[2].shape = "begins"
  /\ Repeats(PhsOf(eTerms, 2)) /\ Len(eValues) = 2 /\ EarlierCompile
  /\ eOut.err = DuplicateError /\ NoResult

\* An attribute of the item with a value that is not the zero value.
NonZero(a) == kItem.val[a] \in {"set", "bytes"}
\* Every attribute of a key descriptor is non-zero in the item.
Complete(key) == key # <<>> /\ \A i \in 1..Len(key) : NonZero(key[i])
KeyOf(key) == {<<key[i], kItem.val[key[i]]>> : i \in 1..Len(key)}
SecondaryIdxs == kSchema.LocalSecondaryIndexes \o kSchema.GlobalSecondaryIndexes
CompleteIdxs == {i \in 1..Len(SecondaryIdxs) : Complete(SecondaryIdxs[i].Key)}

\* C26: getKey returns the primary key when every primary-key attribute of
\* the item is non-zero, else the key of the first secondary index whose key
\* attributes are all non-zero, else it fails; a resolved key holds exactly
\* the attributes of the chosen descriptor, each with a non-zero value.
C26_getKeyResolves ==
  kpc = "done" =>
    IF Complete(kSchema.Key)
      THEN kOut = [NoKey EXCEPT !.value = KeyOf(kSchema.Key)]
    ELSE IF CompleteIdxs # {}
      THEN /\ kOut.err = ""
           /\ kOut.indexName = SecondaryIdxs[MinOf(CompleteIdxs)].Name
           /\ kOut.value = KeyOf(SecondaryIdxs[MinOf(CompleteIdxs)].Key)
      ELSE kOut.err \notin {"", "panic"} /\ kOut.value = {}

\* The tokens a new shard iterator of shard sh can carry when it is built
\* after the last-seen sequence number: the position right after that number
\* or, when the range of the shard does not have it or the first call fails,
\* the trim horizon.
NewTokens(sh) ==
  {newShardIterator(sh, sLastRecSeqNum, o[1], o[2]).id :
     o \in {p \in AllOutcomes \X AllOutcomes :
              /\ IteratorCalls(sh, sLastRecSeqNum, p[1], p[2])
              /\ newShardIterator(sh, sLastRecSeqNum, p[1], p[2]).err = ""}}

\* C27: when getRecords goes on after a failed fetch and a refresh, the next
\* fetch on the shard uses the token of the iterator the refresh has built
\* after the last-seen sequence number, a token that has not expired, and
\* not the token of the failed fetch.
C27_RefreshUsesNewToken ==
  [][(spc = "refresh" /\ spc' = "records") =>
       /\ shardIt' \in NewTokens(Head(pShards))
       /\ ~itExpired']_vars

\* Nothing is left for a call but skipped slots: no entry is carried over
\* from the last call and every pending slot is nil.
OnlySkipped ==
  /\ SumLen(citems, Tables) = 0
  /\ \A t \in Tables : \A i \in 1..Len(unproc[t]) : unproc[t][i] = NIL

\* C28: Run issues no network batch call with zero entries; when nothing but
\* skipped slots remains pending, Run makes no further call and returns the
\* per-index report.
C28_NoCallWithoutEntries ==
  /\ [](pc = "call" => SumLen(citems, Tables) > 0)
  /\ [][(pc = "run" /\ OnlySkipped) =>
          (pc' = "done" /\ runResult' \in {"nil", "BatchError"})]_vars

\* The records of the buffer that Next has not handed out yet.
Undelivered == SubSeq(sRecords, sIndex + 1, Len(sRecords))

\* C29: when HasNext or WaitNext has returned false, the buffer holds no
\* undelivered record: what a pass has fetched is offered by a call that
\* returns true, also when a later call of the pass meets resource-not-found.
C29_FalseLeavesNothingBuffered ==
  (spc = "idle" /\ sRet = "false") => Undelivered = <<>>

\* The text RangeFilter was given: q.rangeExpr without the connective
\* RangeFilter puts in front of it.
RangeText == Tail(qRangeExpr)

\* C30: with a range filter and no hash filter Run scans, and the filter
\* expression of the Scan is the post-filter text, one " AND " and the
\* range-filter text, or the range-filter text alone when no post filter was
\* given; it neither begins nor ends with a connective.
C30_ScanFilterJoinsRange ==
  [][(RunExecutes /\ qHashExpr = <<>> /\ qRangeExpr # <<>>) =>
       /\ qInput'.op = "scan"
       /\ qInput'.FilterExpression =
            (IF qFilterExpr # <<>> THEN qFilterExpr \o <<" AND ">> \o RangeText
             ELSE RangeText)
       /\ Head(qInput'.FilterExpression) # " AND "
       /\ qInput'.FilterExpression[Len(qInput'.FilterExpression)] # " AND "]_vars

\* The names and values the text of the query's expressions was given.
Supplied == qSupplied.hash \cup qSupplied.range \cup qSupplied.filter

\* C31: after an error-free sequence of HashFilter, RangeFilter and Filter
\* calls every placeholder of the query's expressions is bound to the name or
\* value of the call that introduced it: no later call has rebound it.
C31_PlaceholdersKeepBinding ==
  qErr = "" => \A b \in Supplied : b \in qAttrNames \cup qAttrValues

\* Shard sh exists and this RecordIterator has not marked it fully consumed.
Unconsumed(sh) ==
  sh \in 1..Len(shStart) /\ sh \notin sProcessed /\ sh \notin shardsGone

\* A discovery pass has listed shard sh and is about to drain it.
Listed(sh) == spc = "shard" /\ \E i \in 1..Len(pShards) : pShards[i] = sh

\* C32: advancing the shard-page cursor makes no unconsumed shard
\* unreachable: between two passes every unconsumed shard lies after the
\* cursor, and a shard that is not marked fully consumed is listed again by a
\* later discovery pass. Stated for the runs in which no transport call
\* failed.
C32_CursorKeepsShardsReachable ==
  /\ []((spc = "idle" /\ sFailures = 0) =>
          \A sh \in 1..MaxShards :
            Unconsumed(sh) => (sLastShardID = NIL \/ sh > sLastShardID))
  /\ \A sh \in 1..MaxShards :
       (Unconsumed(sh) /\ sArn # "" /\ spc = "idle") ~>
         (Listed(sh) \/ ~Unconsumed(sh) \/ sFailures > 0)

\* The term the shape parsers are handed for the one-term expression eExpr.
SubExpr == strReplaceAll(reAndRepl(eExpr), wNOT, <<>>)

\* What the first parser of a list that matches or fails has answered, the
\* list given by the answers of its parsers; no match at all is a syntax
\* error.
RECURSIVE FirstMatch(_)
FirstMatch(answers) ==
  IF answers = <<>> THEN Parsed("invalid expression", <<>>, <<>>)
  ELSE IF answers[1].err # errNoMatch THEN answers[1]
  ELSE FirstMatch(Tail(answers))

\* The compiled term has the attribute path and the value placeholders of the
\* parser's answer r, or is rejected with its error.
Decides(r) ==
  IF r.err # "" THEN eOut.err = r.err
  ELSE /\ eOut.err = ""
       /\ [i \in 1..Len(eOut.attrNames) |-> eOut.attrNames[i].value]
            = strSplit(r.attrName, <<".">>)
       /\ [i \in 1..Len(eOut.attrValues) |-> eOut.attrValues[i].placeholder] = r.vph

\* C33: a term is tried against the shape parsers in the order function-call,
\* between, in, comparison; the first parser that matches decides the term's
\* attribute path and value placeholders, and a term that matches no shape is
\* rejected as a syntax error.
C33_FirstParserDecides ==
  epc = "done" =>
    Decides(FirstMatch(<<parseFuncExpr(SubExpr), parseBetweenExpr(SubExpr),
                         parseInExpr(SubExpr), parseCompExpr(SubExpr)>>))

\* C33, amended: the order is comparison, between, in, function-call.
C33_FirstParserDecidesFuncLast ==
  epc = "done" =>
    Decides(FirstMatch(<<parseCompExpr(SubExpr), parseBetweenExpr(SubExpr),
                         parseInExpr(SubExpr), parseFuncExpr(SubExpr)>>))

\* A size comparison, which the comparison and the function-call parser both
\* match, has been compiled on the comparison parser's answer.
C33_Witness ==
  /\ epc = "done" /\ eTerms[1].shape = "size" /\ eOut.err = ""
  /\ parseFuncExpr(SubExpr).err \notin {"", errNoMatch}
  /\ parseCompExpr(SubExpr).err = ""

\* C34: RangeFilter called with a non-empty expression has added that
\* condition to the query or has left an error on it, whatever the number of
\* values it was given.
C34_RangeFilterAddsOrFails ==
  (qCalled.call = "RangeFilter" /\ qCalled.expr # "") =>
    (qRangeExpr = <<" AND ", qCalled.expr>> \/ qErr # "")

Destinations == {"nil", "ok", "bad"}

\* RecordIterator.Next has advanced by one, or has failed and left the
\* position and the buffer as they were.
RecordNextStep ==
  /\ sRecords' = sRecords
  /\ IF sCallerErr' = "" THEN sIndex' = sIndex + 1 ELSE sIndex' = sIndex
  /\ sCallerErr' = "invalid record" => sIndex' < Len(sRecords')

\* C35: ItemIterator.Next and RecordIterator.Next advance the position by
\* exactly one on success, a nil destination just advancing, and leave the
\* position and the buffer unchanged when decoding fails or when called past
\* the end, so that the call after a failed decode is presented the same
\* entry.
C35_NextAdvancesByOne ==
  [][\A dest \in Destinations :
       /\ ItemIterator_Next(dest) =>
            /\ IF callerErr' = "" THEN itIndex' = itIndex + 1
               ELSE itIndex' = itIndex /\ itItems' = itItems
            /\ callerErr' = "invalid item" => itIndex' < Len(itItems')
            /\ (dest = "nil" /\ itIndex < Len(itItems)) => callerErr' = ""
       /\ RecordIterator_Next(dest) =>
            /\ RecordNextStep
            /\ (dest = "nil" /\ sIndex < Len(sRecords)) => sCallerErr' = ""]_vars

\* C35, amended: ItemIterator.Next called with its buffered page exhausted
\* and a page left to fetch first replaces the buffer by that page and sets
\* the position to its start; from there, as in every other call and in
\* RecordIterator.Next, success advances the position by exactly one and
\* delivers the entry before it, and a failed decode or a call past the end
\* leaves position and buffer where they are.
C35_NextAdvancesByOneInPage ==
  [][\A dest \in Destinations :
       /\ ItemIterator_Next(dest) =>
            /\ itItems' # itItems => (itIndex >= Len(itItems) /\ itLastKey > 0)
            /\ IF callerErr' = ""
                 THEN /\ itIndex' = (IF itItems' # itItems THEN 1 ELSE itIndex + 1)
                      /\ yielded' = Append(yielded, itItems'[itIndex'])
                 ELSE /\ itIndex' = (IF itItems' # itItems THEN 0 ELSE itIndex)
                      /\ yielded' = yielded
            /\ callerErr' = "no more items to return" => itItems' = itItems
            /\ callerErr' = "invalid item" => itIndex' < Len(itItems')
            /\ (dest = "nil" /\ itIndex < Len(itItems)) => callerErr' = ""
       /\ RecordIterator_Next(dest) =>
            /\ RecordNextStep
            /\ (dest = "nil" /\ sIndex < Len(sRecords)) => sCallerErr' = ""]_vars

\* Next, called without HasNext, has fetched the second page and delivered
\* its first item.
C35_Witness ==
  /\ qpc = "iter" /\ callerErr = "" /\ lastHasNext = "none"
  /\ itIndex = 1 /\ Len(yielded) >= 2
  /\ yielded[Len(yielded)] = <<2, 1>>

\* The expression has a BETWEEN term joined to another term, and a value
\* that converts for every placeholder.
BetweenJoined ==
  /\ Len(eTerms) >= 2
  /\ \E i \in 1..Len(eTerms) : eTerms[i].shape = "between"
  /\ Len(eValues) >= NumPlaceholders(eTerms)
  /\ \A i \in 1..NumPlaceholders(eTerms) : eValues[i] # 0

RECURSIVE PathNames(_)
PathNames(terms) ==
  IF terms = <<>> THEN <<>> ELSE terms[1].path \o PathNames(Tail(terms))

\* C36: an expression in which a BETWEEN term is joined to other terms by AND
\* or OR compiles into the terms written: the names of each term's path, the
\* values bound to the placeholders in the order written, both bounds of
\* BETWEEN among them, and the text with 'BETWEEN <lo> AND <hi>' unchanged
\* apart from the name placeholders.
C36_BetweenKeepsItsAnd ==
  (epc = "done" /\ BetweenJoined) =>
    /\ eOut.err = ""
    /\ eOut.expr = RenderExpr(eTerms, eConns, 1, TRUE)
    /\ [i \in 1..Len(eOut.attrNames) |-> eOut.attrNames[i].value] = PathNames(eTerms)
    /\ eOut.attrValues = [i \in 1..NumPlaceholders(eTerms) |->
                            [value |-> eValues[i], placeholder |-> valuePlaceholder(i)]]

\* A comparison joined by AND to a BETWEEN term that follows it has been
\* compiled.
C36_Witness ==
  /\ epc = "done" /\ BetweenJoined /\ eOut.err = ""
  /\ eTerms[1].shape = "eq" /\ eTerms[2].shape = "between" /\ eConns[1] = wAND
  /\ Len(eOut.attrValues) = 3

\* A GetRecords call of getRecords has answered: the loop goes on with the
\* next token or leaves the shard.
FetchReturns == spc = "records" /\ (pShards' # pShards \/ shardIt' # shardIt)

\* The shard the RecordIterator asks a shard iterator or records for.
Asked == IF spc \in {"shard", "records", "refresh"} THEN {Head(pShards)} ELSE {}

\* C37: a shard is marked consumed exactly when a fetch on it returns no
\* next-iterator token, a marked shard is never again asked for a shard
\* iterator or for records, and the set of consumed shard ids only grows.
C37_ConsumedShardsStayConsumed ==
  /\ [][/\ FetchReturns =>
            sProcessed' = (IF GetRecordsReply(shardIt).NextShardIterator = NoIterator
                             THEN sProcessed \cup {Head(pShards)} ELSE sProcessed)
        /\ ~FetchReturns => sProcessed' = sProcessed
        /\ sProcessed \subseteq sProcessed']_vars
  /\ [](Asked \cap sProcessed = {})
  /\ [](\A i \in 1..Len(pShards) : spc \in {"shard", "records", "refresh"} =>
          pShards[i] \notin sProcessed)

\* With one shard consumed, the iterator fetches from another one after a
\* DescribeStream of a later HasNext or WaitNext listed both.
C37_Witness ==
  /\ spc = "records" /\ sProcessed # {} /\ Head(pShards) \notin sProcessed
  /\ sLastShardID = NIL /\ sYielded # <<>>
  /\ \E sh \in sProcessed : sYielded[1] \in {shRecs[sh][i] : i \in 1..Len(shRecs[sh])}

\* C38: under any interleaving of concurrent GetSchema calls the register
\* entry of a struct type is written at most once, an entry that is present
\* is never replaced or removed, and every caller for the type gets the same
\* schema.
C38_EntryWrittenOnce ==
  /\ [](\A t \in Types : cWrites[t] <= 1)
  /\ [][\A t \in Types : schemas[t] # NoTable => schemas'[t] = schemas[t]]_vars
  /\ [](\A t \in Types : Cardinality({s.table : s \in cGot[t]}) <= 1)

\* Input index i of table t has its destination decoded from an item the
\* store returned, and no entry in the error map.
DecodedOnly(t, i) ==
  /\ <<t, i>> \in decoded /\ <<t, bItems[t][i]>> \in returned
  /\ errs[t][i] = ""

\* Input index i of table t has an entry in the error map, for one of the
\* three reasons, and its destination was not decoded.
EntryOnly(t, i) ==
  /\ <<t, i>> \notin decoded
  /\ errs[t][i] \in {"ErrKey", "ErrDecode", "ErrNoSuchItem"}
  /\ errs[t][i] = "ErrKey" <=> bItems[t][i] = 0

OneOutcomeEach ==
  /\ \A t \in bTables : \A i \in 1..Len(bItems[t]) : DecodedOnly(t, i) \/ EntryOnly(t, i)
  /\ runResult = "nil" <=> \A t \in Tables : \A i \in 1..MaxItems : errs[t][i] = ""

\* C39: after BatchGet.Run returns without a transport error, every input
\* index of every registered table is either decoded from a returned item
\* with no entry in the error map, or has one entry and is not decoded; Run
\* returns nil exactly when there is no entry.
C39_OneOutcomePerIndex ==
  (pc = "done" /\ bKind = "get" /\ runResult # "transportErr") => OneOutcomeEach

\* C39 for a Run that got past the builder's error check.
C39_OneOutcomePerIndexOfRun ==
  (pc = "done" /\ bKind = "get" /\ runResult \in {"nil", "BatchError"}) => OneOutcomeEach

\* A BatchGet has returned a BatchError with one index decoded, and a key
\* given at two indices that was not found.
C39_Witness ==
  /\ pc = "done" /\ bKind = "get" /\ runResult = "BatchError"
  /\ \E t \in bTables : \E i \in 1..Len(bItems[t]) : DecodedOnly(t, i)
  /\ \E t \in bTables : \E i, j \in 1..Len(bItems[t]) :
       /\ i # j /\ bItems[t][i] = bItems[t][j]
       /\ errs[t][i] = "ErrNoSuchItem" /\ errs[t][j] = "ErrNoSuchItem"

\* The slots, entries and placeholders alike, held in the pending slices.
PendingSlots == SumLen(unproc, Tables)

\* C40: between the operations of a batchOp, unpCount is the number of slots
\* still held in the pending slices of the tables of b.unproc and is never
\* negative; so when collectItems is called with a count other than zero the
\* map it divides by has a table, and it returns.
C40_CountIsPendingSlots ==
  /\ unpCount = PendingSlots /\ unpCount >= 0
  /\ \A t \in Tables \ unprocDom : unproc[t] = <<>>
  /\ pc = "run" =>
       \A ie \in isEmpty(unproc, unprocDom) :
         /\ unpCount # 0 => ie.dom # {}
         /\ collectItems(batchSizeOf(bKind), citems, unproc, ie.dom, unpCount) # {}

\* Between two calls of a Run, with slots collected and a placeholder of a
\* duplicated key among the slots still pending.
C40_Witness ==
  /\ pc = "run" /\ unpCount > 0 /\ unpCount < SumLen(bItems, Tables)
  /\ \E t \in Tables : \E i \in 1..Len(unproc[t]) : unproc[t][i] = NIL
  /\ \E t \in Tables : \E k \in Keys : sentNew[t][k] > 0

====
